---- MODULE Spec2Model ----
(***************************************************************************)
(* Multi-round tool-calling orchestration of the course-materials RAG      *)
(* chatbot: AIGenerator.generate_response / _execute_sequential_rounds /   *)
(* _execute_tools (backend/ai_generator.py), driven by the top-level       *)
(* query pipeline (RAGSystem.query) over a shared tool registry whose      *)
(* content-search tool accumulates SourceRecords on the tool instance.     *)
(*                                                                         *)
(* Spec      queries answered one after another on one system.             *)
(* ConcSpec  two top-level queries in flight against the same registry.    *)
(* ApiSpec   requests served one at a time by POST /api/query (app.py) or  *)
(*           by a direct call of RAGSystem.query, with sessions.           *)
(***************************************************************************)
EXTENDS Integers, Sequences, FiniteSets, TLC

\* ------------------------------------------------------------------ bounds
MaxRounds == 2
MaxBlocks == 2
MaxDocs == 2
ConcMaxRounds == 1
ConcMaxBlocks == 1
MaxRequests == 2
ApiMaxBlocks == 1

\* `max_rounds: int = 2`
DefaultMaxRounds == 2

\* Two query slots; Spec uses the first only, ConcSpec both.
Queries == {1, 2}
SeqQueries == {1}

\* ---------------------------------------------------------------- inputs
\* max_rounds values a caller may pass: negative, zero and positive.
RoundsUpTo(n) == (0 - 1)..n

\* generate_response arguments: is `tools` truthy, is `tool_manager` truthy,
\* and max_rounds.
ArgsUpTo(n) == [tools : BOOLEAN, mgr : BOOLEAN, R : RoundsUpTo(n)]

\* What RAGSystem.query passes: the registry's definitions and the registry.
TopLevelArgs(n) == {a \in ArgsUpTo(n) : a.tools /\ a.mgr /\ a.R >= 0}

\* Kinds of content block the engine may emit: a text block, or a tool_use
\* block naming one of the registered tools.
BlockKinds == {"text", "search", "outline"}

\* The same, with a tool_use block whose name no tool is registered under.
EmittedKinds == BlockKinds \cup {"nosuch"}

Last(s) == s[Len(s)]

RECURSIVE SeqsUpTo(_, _)
SeqsUpTo(S, n) ==
    IF n = 0 THEN {<<>>}
    ELSE LET shorter == SeqsUpTo(S, n - 1)
         IN shorter \cup {Append(s, x) : s \in {t \in shorter : Len(t) = n - 1}, x \in S}

\* Content templates of an engine response, by bound on the block count.
Contents(n) == SeqsUpTo(BlockKinds, n)

\* Content templates in which the engine may also name an unknown tool.
AnyContents(n) == SeqsUpTo(EmittedKinds, n)

StopReasons == {"tool_use", "end_turn", "max_tokens"}

\* ----------------------------------------------------------- data values
\* Block i of the response to engine call k.  A text block carries its text
\* (identified by id); a tool_use block carries id and name and has no text.
Block(kind, k, i) ==
    [type |-> IF kind = "text" THEN "text" ELSE "tool_use",
     name |-> IF kind = "text" THEN "" ELSE kind,
     id   |-> <<k, i>>]

MkContent(tpl, k) == [i \in 1..Len(tpl) |-> Block(tpl[i], k, i)]

NoAnswer == [kind |-> "none", id |-> <<0, 0>>]
TextAnswer(b) == [kind |-> "text", id |-> b.id]
Apology == [kind |-> "apology", id |-> <<0, 0>>]
Fallback == [kind |-> "fallback", id |-> <<0, 0>>]

NoResponse == [stop |-> "none", content |-> <<>>]
NoRequest == [messages |-> <<>>, tools |-> FALSE, tool_choice |-> FALSE]

UserTurn(q) == [role |-> "user", by |-> q, kind |-> "query", blocks |-> <<>>]
AssistantTurn(q, content) ==
    [role |-> "assistant", by |-> q, kind |-> "assistant", blocks |-> content]

\* A tool-results turn that carries none of the results.
ToolResultsTurnEmpty(q, res) ==
    [role |-> "user", by |-> q, kind |-> "tool_results", blocks |-> <<>>]

\* A tool-results turn that is never empty: a placeholder stands in when
\* there are no results.
ToolResultsTurnPadded(q, res) ==
    [role |-> "user", by |-> q, kind |-> "tool_results",
     blocks |-> IF res = <<>>
                THEN <<[type |-> "text", tool_use_id |-> <<0, 0>>, content |-> "none"]>>
                ELSE res]

\* A tool-results turn with the results in the opposite order.
ToolResultsTurnReversed(q, res) ==
    [role |-> "user", by |-> q, kind |-> "tool_results",
     blocks |-> [i \in 1..Len(res) |-> res[Len(res) + 1 - i]]]

ToolResultsTurn(q, res) ==
    [role |-> "user", by |-> q, kind |-> "tool_results", blocks |-> res]
\* The result of a tool_use block with its content left out.
ToolResultBlank(b, text) == [type |-> "tool_result", tool_use_id |-> b.id, content |-> ""]

ToolResult(b, text) == [type |-> "tool_result", tool_use_id |-> b.id, content |-> text]

\* ------------------------------------------------- sessions and requests
\* An Optional[str]: None, or a string given as its sequence of parts.
NoneId == [none |-> TRUE, text |-> <<>>]
Str(t) == [none |-> FALSE, text |-> t]
EmptyId == Str(<<>>)

\* The id create_session hands out for the n-th session.
SessionId(n) == Str(<<"session_", n>>)
SessionIds == {SessionId(n) : n \in 1..MaxRequests}

\* session_id values a client may send: absent, empty, or an id.
RequestIds == SessionIds \cup {NoneId, EmptyId}

QueryTexts == {"question"}

\* Only the absent id taken as missing: `if session_id is None`.
TruthyUnlessNone(sid) == ~sid.none

\* Python truth value of an Optional[str], as in `if not session_id:`.
Truthy(sid) == ~sid.none /\ Len(sid.text) > 0

\* The prompt RAGSystem.query builds around the caller's text.
Prompt(text) == <<"Answer this question about course materials: ", text>>

\* No prior conversation: get_conversation_history returned None.
NoHistory == <<>>

\* The prior-conversation string of a session: its exchanges, or None when
\* it has none.
History(store, sid) == IF sid \in DOMAIN store THEN store[sid] ELSE NoHistory

Exchange(sid, text, ans) == [session_id |-> sid, user |-> text, answer |-> ans]

\* The section for previous conversation added whatever the history is.
SystemContentAlways(h) == <<"SYSTEM_PROMPT", "Previous conversation:", h>>

\* `system_content`: the static prompt, followed by the previous
\* conversation when conversation_history is truthy.
SystemContent(h) ==
    IF h # NoHistory THEN <<"SYSTEM_PROMPT", "Previous conversation:", h>>
    ELSE <<"SYSTEM_PROMPT">>

\* The parameters a caller passes by keyword; max_rounds may be left out.
RagArgs == [tools |-> TRUE, mgr |-> TRUE]

\* An omitted max_rounds bound to one more than the documented default.
BindOneMore(given) ==
    [tools |-> given.tools, mgr |-> given.mgr,
     R |-> IF "R" \in DOMAIN given THEN given.R ELSE DefaultMaxRounds + 1]

\* Parameter binding of generate_response: an omitted max_rounds is 2.
Bind(given) ==
    [tools |-> given.tools, mgr |-> given.mgr,
     R |-> IF "R" \in DOMAIN given THEN given.R ELSE DefaultMaxRounds]

NoQuery == [via |-> "none", query |-> "", session_id |-> NoneId]
NoOps == [created |-> 0, fetched |-> 0, appended |-> 0]
NoReply == [status |-> 0, answer |-> NoAnswer, sources |-> <<>>, session_id |-> NoneId]
QueryResponse(ans, srcs, sid) ==
    [status |-> 200, answer |-> ans, sources |-> srcs, session_id |-> sid]

\* An exception: its class and the message it was constructed with.
Exc(type, msg) == [type |-> type, msg |-> msg]
NoException == Exc("", "")

\* What messages.create raises when the engine cannot be reached.
EngineError == Exc("APIConnectionError", "Connection error.")

\* What create_session raises when the session store fails.
SessionError == Exc("RuntimeError", "session store unavailable")

\* What `content[0].text` raises: content is empty, or its first block is
\* a tool_use block, which has no text.
ExtractError(content) ==
    IF Len(content) = 0 THEN Exc("IndexError", "list index out of range")
    ELSE Exc("AttributeError", "'ToolUseBlock' object has no attribute 'text'")

\* The exception's class name in place of its message.
StrOfClass(e) == e.type

\* str(e) of an exception built with one message.
StrOf(e) == e.msg

\* HTTPException(status_code=500, detail=...): nothing of QueryResponse is
\* in it.
ServerError(detail) ==
    [status |-> 500, detail |-> detail, answer |-> NoAnswer, sources |-> <<>>,
     session_id |-> NoneId]

\* ------------------------------------------- retrieval tools and registry
\* An Optional value: None, or a value.
None == [some |-> FALSE]
Some(v) == [some |-> TRUE, val |-> v]

\* Strings are sequences of their parts.  Course names as the engine may
\* write them, the titles of the catalog, and lesson numbers.
CourseNames == {"Python"}
Titles == {"Python Basics"}
LessonNumbers == {3}
OptCourseNames == {None} \cup {Some(c) : c \in CourseNames}
OptLessonNumbers == {None} \cup {Some(n) : n \in LessonNumbers}

\* What the catalog returns for a query with n_results=1: nothing, or the
\* metadata of the nearest title.
CatalogResults == {<<>>} \cup {<<[title |-> t]>> : t \in Titles}

\* A default title handed out when the catalog has no match.
ResolveCourseNameOrDefault(cat) ==
    IF Len(cat) > 0 THEN Some(cat[1].title) ELSE Some("Python Basics")

\* VectorStore._resolve_course_name: the title of the top match, or None.
ResolveCourseName(cat) == IF Len(cat) > 0 THEN Some(cat[1].title) ELSE None

\* The course title alone whenever there is one.
BuildFilterCourseFirst(course_title, lesson_number) ==
    IF course_title.some THEN [course_title |-> course_title.val]
    ELSE IF lesson_number.some THEN [lesson_number |-> lesson_number.val]
    ELSE None

\* VectorStore._build_filter: the `where` argument of the content query.
BuildFilter(course_title, lesson_number) ==
    IF course_title.some /\ lesson_number.some
    THEN [and |-> <<[course_title |-> course_title.val],
                    [lesson_number |-> lesson_number.val]>>]
    ELSE IF course_title.some THEN [course_title |-> course_title.val]
    ELSE IF lesson_number.some THEN [lesson_number |-> lesson_number.val]
    ELSE None

\* What the content index does with a query: it raises, or returns n chunks
\* with their metadata and distances.
IndexBehaviours ==
    [raise : {TRUE}, exc : {"ChromaDB error"}, n : {0}]
        \cup [raise : {FALSE}, exc : {""}, n : 0..MaxDocs]

\* The chunks that match: of the course and lesson asked for, when asked.
RawResults(n, course_title, lesson_number) ==
    [documents |-> [i \in 1..n |-> <<"chunk ", ToString(i)>>],
     metadatas |-> [i \in 1..n |->
                      [course_title |-> IF course_title.some THEN course_title.val
                                        ELSE "Python Basics",
                       lesson_number |-> IF lesson_number.some THEN lesson_number
                                         ELSE Some(i)]],
     distances |-> [i \in 1..n |-> i]]

\* Results whose distances were left out.
FromChromaNoDistances(raw) ==
    [documents |-> raw.documents, metadata |-> raw.metadatas,
     distances |-> <<>>, error |-> None]

\* SearchResults.from_chroma
FromChroma(raw) ==
    [documents |-> raw.documents, metadata |-> raw.metadatas,
     distances |-> raw.distances, error |-> None]

\* SearchResults.empty(error_msg)
Empty(error_msg) ==
    [documents |-> <<>>, metadata |-> <<>>, distances |-> <<>>,
     error |-> Some(error_msg)]

\* SearchResults.is_empty
IsEmpty(r) == Len(r.documents) = 0

\* VectorStore.search: resolve the course name when one is given, build the
\* filter, query the content index; `catalog` is the queries made on the
\* catalog with what it returned, `content` the filters of the queries made
\* on the content index.
Search(course_name, lesson_number, cat, index) ==
    LET course_title == IF course_name.some THEN ResolveCourseName(cat) ELSE None
        asked == IF course_name.some
                 THEN <<[query_texts |-> course_name.val, results |-> cat]>>
                 ELSE <<>>
    IN  IF course_name.some /\ ~course_title.some
        THEN [results |-> Empty(<<"No course found matching '", course_name.val, "'">>),
              resolved |-> course_title, catalog |-> asked, content |-> <<>>]
        ELSE [results |-> IF index.raise
                          THEN Empty(<<"Search error: ", index.exc>>)
                          ELSE FromChroma(RawResults(index.n, course_title,
                                                     lesson_number)),
              resolved |-> course_title, catalog |-> asked,
              content |-> <<BuildFilter(course_title, lesson_number)>>]

\* The message with no mention of the filters.
EmptyMessageBare(course_name, lesson_number) == <<"No relevant content found">>

\* CourseSearchTool.execute on empty results: the message names the filters
\* that were supplied.
EmptyMessage(course_name, lesson_number) ==
    <<"No relevant content found">>
        \o (IF course_name.some THEN <<" in course '", course_name.val, "'">> ELSE <<>>)
        \o (IF lesson_number.some THEN <<" in lesson ", ToString(lesson_number.val)>>
            ELSE <<>>)

\* "<title> - Lesson <n>", the lesson clause left out when there is none.
TitleAndLesson(meta) ==
    <<meta.course_title>>
        \o (IF meta.lesson_number.some
            THEN <<" - Lesson ", ToString(meta.lesson_number.val)>> ELSE <<>>)

\* CourseSearchTool._format_results: a headed block per chunk, joined by a
\* blank line.
RECURSIVE FormatFrom(_, _)
FormatFrom(r, i) ==
    IF i > Len(r.documents) THEN <<>>
    ELSE (IF i > 1 THEN <<"\n\n">> ELSE <<>>)
         \o <<"[">> \o TitleAndLesson(r.metadata[i]) \o <<"]", "\n">>
         \o r.documents[i] \o FormatFrom(r, i + 1)

FormatResults(r) == FormatFrom(r, 1)

\* The source records of the chunks, one per chunk (lesson links are left
\* out of the model).
Sources(r) == [i \in 1..Len(r.documents) |-> TitleAndLesson(r.metadata[i])]

\* CourseSearchTool.execute: the string returned, the accumulation it leaves
\* (None: left as it was), and the index queries made.
SearchExecute(kwargs, cat, index) ==
    LET s == Search(kwargs.course_name, kwargs.lesson_number, cat, index)
        r == s.results
    IN  [ret |-> IF r.error.some THEN r.error.val
                 ELSE IF IsEmpty(r)
                      THEN EmptyMessage(kwargs.course_name, kwargs.lesson_number)
                      ELSE FormatResults(r),
         sources |-> IF ~r.error.some /\ ~IsEmpty(r) THEN Some(Sources(r))
                     ELSE None,
         results |-> Some(r), resolved |-> s.resolved, catalog |-> s.catalog,
         content |-> s.content]

\* CourseOutlineTool.execute: the outline of the resolved course, or a
\* not-found message; a tool that accumulates records the course.
OutlineExecute(kwargs, cat, accumulates) ==
    LET course_title == ResolveCourseName(cat) IN
    [ret |-> IF course_title.some THEN <<"Course: ", course_title.val>>
             ELSE <<"No course found matching '", kwargs.course_title, "'">>,
     sources |-> IF course_title.some /\ accumulates
                 THEN Some(<<<<course_title.val>>>>) ELSE None,
     results |-> None, resolved |-> course_title,
     catalog |-> <<[query_texts |-> kwargs.course_title, results |-> cat]>>,
     content |-> <<>>]

\* Arguments the engine may pass to each tool.
SearchKwargs ==
    [query : {"what is a variable"}, course_name : OptCourseNames,
     lesson_number : OptLessonNumbers]
OutlineKwargs == [course_title : CourseNames]

\* The tools that may be handed to register_tool: the two retrieval tools
\* (the outline tool with or without an accumulation), and a tool whose
\* definition has no name.
ToolInstances ==
    {[kind |-> "search", accumulates |-> TRUE],
     [kind |-> "outline", accumulates |-> TRUE],
     [kind |-> "outline", accumulates |-> FALSE],
     [kind |-> "unnamed", accumulates |-> FALSE]}

\* tool.get_tool_definition(): the schema's name, when it has one.
ToolDefinition(tool) ==
    [name |-> IF tool.kind = "search" THEN Some("search_course_content")
              ELSE IF tool.kind = "outline" THEN Some("get_course_outline")
              ELSE None]

\* Names the engine may invoke.
InvokedNames == {"search_course_content", "get_course_outline", "nonexistent_tool"}

\* Position of the tool registered under a name, 0 when there is none.
Lookup(reg, name) ==
    IF \E i \in DOMAIN reg : reg[i].name = name
    THEN CHOOSE i \in DOMAIN reg : reg[i].name = name
    ELSE 0

\* A tool stored under its kind instead of its declared name.
RegisterToolByKind(reg, tool) ==
    Append(reg, [name |-> tool.kind, tool |-> tool, last_sources |-> <<>>])

\* ToolManager.register_tool for a definition that has a name:
\* `self.tools[tool_name] = tool`, a dict that keeps insertion order.
RegisterTool(reg, tool) ==
    LET entry == [name |-> ToolDefinition(tool).name.val, tool |-> tool,
                  last_sources |-> <<>>]
    IN  IF Lookup(reg, entry.name) > 0
        THEN [reg EXCEPT ![Lookup(reg, entry.name)] = entry]
        ELSE Append(reg, entry)

\* Only the first non-empty accumulation returned.
RECURSIVE GetLastSourcesFirst(_)
GetLastSourcesFirst(reg) ==
    IF reg = <<>> THEN <<>>
    ELSE IF reg[1].tool.accumulates /\ reg[1].last_sources # <<>>
         THEN reg[1].last_sources
         ELSE GetLastSourcesFirst(Tail(reg))

\* ToolManager.get_last_sources: the accumulations of the tools that have
\* one, joined in registration order.
RECURSIVE GetLastSources(_)
GetLastSources(reg) ==
    IF reg = <<>> THEN <<>>
    ELSE (IF reg[1].tool.accumulates THEN reg[1].last_sources ELSE <<>>)
         \o GetLastSources(Tail(reg))

\* ToolManager.reset_sources: every accumulation emptied.
ResetAllSources(reg) ==
    [i \in DOMAIN reg |->
        IF reg[i].tool.accumulates THEN [reg[i] EXCEPT !.last_sources = <<>>]
        ELSE reg[i]]

\* The new records added to the ones already there.
AccumulateAppending(old, new) == old \o new

\* `self.last_sources = sources`: the new records take the place of the old.
Accumulate(old, new) == SubSeq(new, 1, Len(new))

\* No execute_tool call made yet.
NoExec ==
    [name |-> "", kwargs |-> None, tool |-> 0, received |-> None, ret |-> <<>>,
     results |-> None, resolved |-> None, catalog |-> <<>>, content |-> <<>>]

VARIABLES
    pc,          \* per query: position in the pipeline
    args,        \* per query: generate_response arguments
    messages,    \* per query: the local `messages` list
    round,       \* per query: current_round
    resp,        \* per query: the engine response in hand
    idx,         \* per query: position of _execute_tools in response.content
    results,     \* per query: tool_results collected so far
    answer,      \* per query: value returned by generate_response
    returned,    \* per query: source list returned with the answer
    lastSources, \* the content-search tool's accumulation (shared)
    ncalls,      \* per query: engine calls made (messages.create)
    lastReq,     \* per query: the request of the latest engine call
    stops,       \* per query: stop reasons of the responses received
    execLog,     \* per query: the execute_tool calls made: block id, tool name,
                 \*   raised or not, and the string returned or the exception
                 \*   caught (and printed)
    failure,     \* per query: how the call ended when it raised
    request,     \* per query: the request being served (text, session_id)
    session_id,  \* per query: the session id in hand
    history,     \* per query: the conversation history fetched
    prompt,      \* per query: the prompt handed to generate_response
    system_content, \* per query: the system parameter of its engine requests
    sessionOps,  \* per query: create_session / get_conversation_history /
                 \*   add_exchange calls made for it
    sessions,    \* the session store: exchanges by session id
    session_counter, \* sessions created so far
    response,    \* per query: what the endpoint answered
    nrequests,   \* requests started
    registry,    \* ToolManager.tools: registered tools, in registration order
    regRaised,   \* the exception the latest register_tool raised, if any
    lastExec,    \* the latest execute_tool call: what was dispatched, the
                 \*   index queries made for it, and the string returned
    drained,     \* the list the latest get_last_sources returned
    startPc,     \* position of startup_event
    docs_path,   \* position in possible_docs_paths of the loop's candidate
    docs_loaded, \* startup_event's flag
    tried,       \* what the loop found at each candidate it looked at
    vector_store \* the courses in the vector store

\* The state of the session and HTTP layer.
apiVars == <<request, session_id, history, prompt, system_content, sessionOps,
             sessions, session_counter, response, nrequests>>

\* The state of the registry and of the tools registered in it.
toolVars == <<registry, regRaised, lastExec, drained>>

\* The state of startup_event and of the vector store it loads into.
startVars == <<startPc, docs_path, docs_loaded, tried, vector_store>>

\* The state of one generate_response call, but its position.
genVars == <<args, messages, round, resp, idx, results, answer, returned,
             lastSources, ncalls, lastReq, stops, execLog, failure>>

vars == <<pc, args, messages, round, resp, idx, results, answer, returned,
          lastSources, ncalls, lastReq, stops, execLog, failure, request,
          session_id, history, prompt, system_content, sessionOps, sessions,
          session_counter, response, nrequests, registry, regRaised, lastExec,
          drained, startPc, docs_path, docs_loaded, tried, vector_store>>

NoFailure == [kind |-> "none", calls |-> 0, execs |-> 0, exc |-> NoException]

Init ==
    /\ pc = [q \in Queries |-> "idle"]
    /\ args = [q \in Queries |-> [tools |-> FALSE, mgr |-> FALSE, R |-> 0]]
    /\ messages = [q \in Queries |-> <<>>]
    /\ round = [q \in Queries |-> 0]
    /\ resp = [q \in Queries |-> NoResponse]
    /\ idx = [q \in Queries |-> 0]
    /\ results = [q \in Queries |-> <<>>]
    /\ answer = [q \in Queries |-> NoAnswer]
    /\ returned = [q \in Queries |-> <<>>]
    /\ lastSources = <<>>
    /\ ncalls = [q \in Queries |-> 0]
    /\ lastReq = [q \in Queries |-> NoRequest]
    /\ stops = [q \in Queries |-> <<>>]
    /\ execLog = [q \in Queries |-> <<>>]
    /\ failure = [q \in Queries |-> NoFailure]
    /\ request = [q \in Queries |-> NoQuery]
    /\ session_id = [q \in Queries |-> NoneId]
    /\ history = [q \in Queries |-> NoHistory]
    /\ prompt = [q \in Queries |-> <<>>]
    /\ system_content = [q \in Queries |-> SystemContent(NoHistory)]
    /\ sessionOps = [q \in Queries |-> NoOps]
    /\ sessions = [sid \in SessionIds |-> <<>>]
    /\ session_counter = 0
    /\ response = [q \in Queries |-> NoReply]
    /\ nrequests = 0
    /\ registry = <<>>
    /\ regRaised = NoException
    /\ lastExec = NoExec
    /\ drained = <<>>
    /\ startPc = "init"
    /\ docs_path = 0
    /\ docs_loaded = FALSE
    /\ tried = <<>>
    /\ vector_store = {}

\* ------------------------------------------------------ AIGenerator pieces
\* The sequential path taken whenever a tool manager is given.
UseSequentialRoundsIgnoringTools(a) == a.mgr

\* `if tools and tool_manager:` selects the sequential-rounds path.
UseSequentialRounds(a) == a.tools /\ a.mgr

\* The loop body entered once before the bound is tested: a do-while.
LoopPcDoWhile(r, R) == IF r = 0 \/ r < R THEN "call" ELSE "synth"

\* The loop bound off by one: `while current_round <= max_rounds`.
LoopPcInclusive(r, R) == IF r <= R THEN "call" ELSE "synth"

\* `while current_round < max_rounds:` decides between another in-loop call
\* and the final call.
LoopPc(r, R) == IF r < R THEN "call" ELSE "synth"

\* Only end_turn taken as the end of reasoning.
WantsToolsUnlessEndTurn(stop) == stop # "end_turn"

\* `if response.stop_reason != "tool_use": return ...`
WantsTools(stop) == stop = "tool_use"

\* An in-loop request made without tools.
LoopRequestBare(msgs) == [messages |-> msgs, tools |-> FALSE, tool_choice |-> FALSE]

\* An in-loop request that sends the latest turn only.
LoopRequestLastTurn(msgs) ==
    [messages |-> <<msgs[Len(msgs)]>>, tools |-> TRUE, tool_choice |-> TRUE]

\* Request of an in-loop call: tools and tool_choice are always set.
LoopRequest(msgs) == [messages |-> msgs, tools |-> TRUE, tool_choice |-> TRUE]

\* Request of the final call: neither key is present.
FinalRequest(msgs) == [messages |-> msgs, tools |-> FALSE, tool_choice |-> FALSE]

\* The single call made without tools whatever the caller supplied.
SingleRequestBare(msgs, tools) == [messages |-> msgs, tools |-> FALSE, tool_choice |-> FALSE]

\* Request of the single call of generate_response: `if tools:` adds both.
SingleRequest(msgs, tools) == [messages |-> msgs, tools |-> tools, tool_choice |-> tools]

\* `messages = [{"role": "user", "content": query}]`: a list of the call's own.
FreshMessages(msgs, q) == [msgs EXCEPT ![q] = <<UserTurn(q)>>]

\* One list shared by every call: an append is seen by all of them.
AppendTurnShared(msgs, q, t) == [p \in DOMAIN msgs |-> Append(msgs[p], t)]

\* `messages.append(...)` on the call's own list.
AppendTurn(msgs, q, t) == [msgs EXCEPT ![q] = Append(@, t)]

\* `response.content[0].text`: IndexError on empty content, AttributeError
\* when the first block is a tool_use block (it has no text attribute).
HasFirstText(content) == Len(content) > 0 /\ content[1].type = "text"

\* Only the first block looked at.
FirstTextIndexHead(content) == IF HasFirstText(content) THEN 1 ELSE 0

\* `for content_block in response.content: if hasattr(content_block, "text")`
FirstTextIndex(content) ==
    IF \E i \in 1..Len(content) : content[i].type = "text"
    THEN CHOOSE i \in 1..Len(content) :
            /\ content[i].type = "text"
            /\ \A j \in 1..(i - 1) : content[j].type # "text"
    ELSE 0

\* ------------------------------------------------- registry and its tools
\* What one execute_tool(name, **input) may do: raise, or return a string.
\* The content-search tool returns passages (docs > 0 documents), the
\* no-content message, or the index layer's error string; the outline tool
\* returns an outline.  Either tool may raise from inside its execution;
\* `text` of a raising outcome is the exception (its type and message).
\* A name no tool is registered under gets the not-found string, and
\* nothing is raised.
Outcome(raise, text, docs) == [raise |-> raise, text |-> text, docs |-> docs]

\* Exceptions a tool's execution may raise.
Exceptions == {"ValueError: bad input", "RuntimeError: index down"}

Raising == {Outcome(TRUE, e, 0) : e \in Exceptions}

ToolOutcomes(name) ==
    IF name = "search"
    THEN {Outcome(FALSE, "passages", n) : n \in 1..MaxDocs}
         \cup {Outcome(FALSE, "no_content", 0), Outcome(FALSE, "index_error", 0)}
         \cup Raising
    ELSE IF name = "outline"
    THEN {Outcome(FALSE, "outline", 0)} \cup Raising
    ELSE {Outcome(FALSE, "not_found", 0)}

\* One SourceRecord per returned document, in result order; `by` and `inv`
\* name the query and the invocation that produced it.
SourceRecords(q, b, n) == [i \in 1..n |-> [by |-> q, inv |-> b.id, doc |-> i]]

\* The content-search tool's accumulation after an execute that returned:
\* passages replace the previous accumulation, anything else leaves it.
SourcesAfter(ls, q, b, o) ==
    IF b.name = "search" /\ o.docs > 0 THEN SourceRecords(q, b, o.docs) ELSE ls

\* drainSources: the accumulations of the registered tools in registration
\* order (search, outline); the outline tool exposes none.
DrainSources(ls) == ls \o <<>>

\* A reset that clears nothing.
ResetSourcesKeeps(ls) == ls

\* A reset that drops one record only.
ResetSourcesDropsFirst(ls) == IF ls = <<>> THEN ls ELSE Tail(ls)

\* resetSources: every registered tool's accumulation becomes empty.
ResetSources(ls) == <<>>

\* Records left on the tool by an earlier query of slot q are no longer
\* records of the query now starting in that slot.
Stale(ls, q) ==
    [i \in 1..Len(ls) |->
        IF ls[i].by = q THEN [by |-> 0, inv |-> <<0, 0>>, doc |-> ls[i].doc] ELSE ls[i]]

\* ---------------------------------------------------------------- actions
\* A query enters generate_response with arguments a.
Begin(q, a) ==
    /\ args' = [args EXCEPT ![q] = a]
    /\ messages' = FreshMessages(messages, q)
    /\ round' = [round EXCEPT ![q] = 0]
    /\ pc' = [pc EXCEPT ![q] =
                IF UseSequentialRounds(a) THEN LoopPc(0, a.R) ELSE "single"]
    /\ resp' = [resp EXCEPT ![q] = NoResponse]
    /\ idx' = [idx EXCEPT ![q] = 0]
    /\ results' = [results EXCEPT ![q] = <<>>]
    /\ answer' = [answer EXCEPT ![q] = NoAnswer]
    /\ returned' = [returned EXCEPT ![q] = <<>>]
    /\ lastSources' = Stale(lastSources, q)
    /\ ncalls' = [ncalls EXCEPT ![q] = 0]
    /\ lastReq' = [lastReq EXCEPT ![q] = NoRequest]
    /\ stops' = [stops EXCEPT ![q] = <<>>]
    /\ execLog' = [execLog EXCEPT ![q] = <<>>]
    /\ failure' = [failure EXCEPT ![q] = NoFailure]

Ended(q) == pc[q] \in {"idle", "returned", "raised"}

\* Queries answered one after another: the next starts when the last has
\* returned to its caller or raised.
StartQuery(q) ==
    /\ \A p \in Queries : Ended(p)
    /\ \E a \in ArgsUpTo(MaxRounds) : Begin(q, a)
    /\ UNCHANGED <<apiVars, toolVars, startVars>>

\* Two top-level queries with no serialization between them: each slot
\* runs one query, started at any time.
StartConcurrent(q) ==
    /\ pc[q] = "idle"
    /\ \E a \in TopLevelArgs(ConcMaxRounds) : Begin(q, a)
    /\ UNCHANGED <<apiVars, toolVars, startVars>>

\* The engine's exception caught and answered with the apology.
EngineFailedApology(q) ==
    /\ pc' = [pc EXCEPT ![q] = "failed"]
    /\ answer' = [answer EXCEPT ![q] = Apology]

\* No try/except surrounds messages.create: its exception leaves
\* generate_response, and the caller, with nothing returned.
EngineFailed(q) ==
    /\ pc' = [pc EXCEPT ![q] = "raised"]
    /\ answer' = answer

\* messages.create raised on request req.
EngineRaises(q, req) ==
    /\ ncalls' = [ncalls EXCEPT ![q] = @ + 1]
    /\ lastReq' = [lastReq EXCEPT ![q] = req]
    /\ EngineFailed(q)
    /\ failure' = [failure EXCEPT ![q] =
                     [kind |-> "engine", calls |-> ncalls[q] + 1,
                      execs |-> Len(execLog[q]), exc |-> EngineError]]
    /\ UNCHANGED <<args, messages, round, resp, idx, results, returned,
                   lastSources, stops, execLog>>

\* The last block taken instead of the first.
AnswerBlockLast(content) == content[Len(content)]

\* The block whose text is returned: `response.content[0]`.
AnswerBlock(content) == content[1]

\* `return response.content[0].text`
ReturnFirstText(q, content) ==
    IF HasFirstText(content)
    THEN /\ pc' = [pc EXCEPT ![q] = "done"]
         /\ answer' = [answer EXCEPT ![q] = TextAnswer(AnswerBlock(content))]
         /\ failure' = failure
    ELSE /\ pc' = [pc EXCEPT ![q] = "raised"]
         /\ answer' = answer
         /\ failure' = [failure EXCEPT ![q] =
                          [kind |-> "extract", calls |-> ncalls[q] + 1,
                           execs |-> Len(execLog[q]),
                           exc |-> ExtractError(content)]]

\* One pass of the while loop up to the start of _execute_tools: the call
\* with tools, the stop_reason test, the append of the assistant turn.
EngineCall(q, C) ==
    /\ pc[q] = "call"
    /\ UNCHANGED <<apiVars, toolVars, startVars>>
    /\ \/ EngineRaises(q, LoopRequest(messages[q]))
       \/ \E stop \in StopReasons, tpl \in C :
            LET content == MkContent(tpl, ncalls[q] + 1) IN
            /\ ncalls' = [ncalls EXCEPT ![q] = @ + 1]
            /\ lastReq' = [lastReq EXCEPT ![q] = LoopRequest(messages[q])]
            /\ resp' = [resp EXCEPT ![q] = [stop |-> stop, content |-> content]]
            /\ stops' = [stops EXCEPT ![q] = Append(@, stop)]
            /\ IF WantsTools(stop)
               THEN /\ messages' = AppendTurn(messages, q, AssistantTurn(q, content))
                    /\ pc' = [pc EXCEPT ![q] = "exec"]
                    /\ idx' = [idx EXCEPT ![q] = 1]
                    /\ results' = [results EXCEPT ![q] = <<>>]
                    /\ UNCHANGED <<answer, failure>>
               ELSE /\ ReturnFirstText(q, content)
                    /\ UNCHANGED <<messages, idx, results>>
            /\ UNCHANGED <<args, round, returned, lastSources, execLog>>

\* _execute_tools, one content block: a block that is not tool_use is
\* passed over; a tool_use block is handed to execute_tool, whose result is
\* appended, or whose exception makes _execute_tools return None and the
\* loop return the apology.
\* The exception swallowed and the remaining blocks still executed.
ToolRaisedContinue(q) ==
    /\ idx' = [idx EXCEPT ![q] = @ + 1]
    /\ UNCHANGED <<pc, answer, results, lastSources>>

\* The caught exception's text returned in place of the fixed string.
ToolRaisedLeaks(q) ==
    /\ pc' = [pc EXCEPT ![q] = "failed"]
    /\ answer' = [answer EXCEPT ![q] =
                    [kind |-> Last(execLog'[q]).out, id |-> <<0, 0>>]]
    /\ UNCHANGED <<idx, results, lastSources>>

\* `except Exception: return None`, then `if tool_results is None: return
\* "I encountered an error ..."`: the results collected so far are dropped.
ToolRaised(q) ==
    /\ pc' = [pc EXCEPT ![q] = "failed"]
    /\ answer' = [answer EXCEPT ![q] = Apology]
    /\ UNCHANGED <<idx, results, lastSources>>

\* The blocks visited from the last to the first.
ContentBlockReversed(content, i) == content[Len(content) + 1 - i]

\* `for content_block in response.content`: the i-th block visited.
ContentBlock(content, i) == content[i]

ExecBlock(q) ==
    /\ pc[q] = "exec"
    /\ UNCHANGED <<apiVars, toolVars, startVars>>
    /\ idx[q] <= Len(resp[q].content)
    /\ LET b == ContentBlock(resp[q].content, idx[q]) IN
       IF b.type # "tool_use"
       THEN /\ idx' = [idx EXCEPT ![q] = @ + 1]
            /\ UNCHANGED <<pc, results, answer, lastSources, execLog>>
       ELSE \E o \in ToolOutcomes(b.name) :
            /\ execLog' = [execLog EXCEPT ![q] =
                             Append(@, [id |-> b.id, name |-> b.name, raised |-> o.raise,
                                        out |-> o.text])]
            /\ IF o.raise
               THEN ToolRaised(q)
               ELSE /\ results' = [results EXCEPT ![q] = Append(@, ToolResult(b, o.text))]
                    /\ lastSources' = SourcesAfter(lastSources, q, b, o)
                    /\ idx' = [idx EXCEPT ![q] = @ + 1]
                    /\ UNCHANGED <<pc, answer>>
    /\ UNCHANGED <<args, messages, round, resp, returned, ncalls, lastReq, stops,
                   failure>>

\* All blocks done: the tool-results turn is appended, the round counted,
\* and the loop condition tested again.
FinishRound(q) ==
    /\ pc[q] = "exec"
    /\ UNCHANGED <<apiVars, toolVars, startVars>>
    /\ idx[q] > Len(resp[q].content)
    /\ messages' = AppendTurn(messages, q, ToolResultsTurn(q, results[q]))
    /\ round' = [round EXCEPT ![q] = @ + 1]
    /\ pc' = [pc EXCEPT ![q] = LoopPc(round[q] + 1, args[q].R)]
    /\ UNCHANGED <<args, resp, idx, results, answer, returned, lastSources, ncalls,
                   lastReq, stops, execLog, failure>>

\* The final call, made without tools, and its `content[0].text`.
SynthCall(q, C) ==
    /\ pc[q] = "synth"
    /\ UNCHANGED <<apiVars, toolVars, startVars>>
    /\ \/ EngineRaises(q, FinalRequest(messages[q]))
       \/ \E stop \in StopReasons, tpl \in C :
            LET content == MkContent(tpl, ncalls[q] + 1) IN
            /\ ncalls' = [ncalls EXCEPT ![q] = @ + 1]
            /\ lastReq' = [lastReq EXCEPT ![q] = FinalRequest(messages[q])]
            /\ resp' = [resp EXCEPT ![q] = [stop |-> stop, content |-> content]]
            /\ stops' = [stops EXCEPT ![q] = Append(@, stop)]
            /\ ReturnFirstText(q, content)
            /\ UNCHANGED <<args, messages, round, idx, results, returned,
                           lastSources, execLog>>

\* generate_response without the sequential path: one call, then the first
\* block that has text, or the fixed fallback string.
SingleCall(q, C) ==
    /\ pc[q] = "single"
    /\ UNCHANGED <<apiVars, toolVars, startVars>>
    /\ \/ EngineRaises(q, SingleRequest(messages[q], args[q].tools))
       \/ \E stop \in StopReasons, tpl \in C :
            LET content == MkContent(tpl, ncalls[q] + 1)
                i == FirstTextIndex(content) IN
            /\ ncalls' = [ncalls EXCEPT ![q] = @ + 1]
            /\ lastReq' = [lastReq EXCEPT ![q] =
                             SingleRequest(messages[q], args[q].tools)]
            /\ resp' = [resp EXCEPT ![q] = [stop |-> stop, content |-> content]]
            /\ stops' = [stops EXCEPT ![q] = Append(@, stop)]
            /\ answer' = [answer EXCEPT ![q] =
                            IF i > 0 THEN TextAnswer(content[i]) ELSE Fallback]
            /\ pc' = [pc EXCEPT ![q] = "done"]
            /\ UNCHANGED <<args, messages, round, idx, results, returned,
                           lastSources, execLog, failure>>

\* The caller, once generate_response has returned a string (an answer or
\* the apology): read the sources ...
Drain(q) ==
    /\ pc[q] \in {"done", "failed"}
    /\ UNCHANGED <<apiVars, toolVars, startVars>>
    /\ returned' = [returned EXCEPT ![q] = DrainSources(lastSources)]
    /\ pc' = [pc EXCEPT ![q] = "drained"]
    /\ UNCHANGED <<args, messages, round, resp, idx, results, answer, lastSources,
                   ncalls, lastReq, stops, execLog, failure>>

\* ... then reset them, and return (answer, sources).
Reset(q) ==
    /\ pc[q] = "drained"
    /\ UNCHANGED <<apiVars, toolVars, startVars>>
    /\ lastSources' = ResetSources(lastSources)
    /\ pc' = [pc EXCEPT ![q] = "returned"]
    /\ UNCHANGED <<args, messages, round, resp, idx, results, answer, returned,
                   ncalls, lastReq, stops, execLog, failure>>

\* ------------------------------------------- top-level query and endpoint
\* A request may start when the slot's previous one has been answered.
ApiEnded(q) ==
    \/ pc[q] \in {"idle", "responded"}
    \/ request[q].via = "direct" /\ pc[q] \in {"answered", "raised"}

\* RAGSystem.query(text, sid) up to the engine: the prompt is built, the
\* history is fetched when there is a session id, and generate_response is
\* entered with the registry's definitions, the registry, and no max_rounds.
\* `given` is the id the caller's request carried and `created` the number
\* of sessions the caller created on the way here.
RagQuery(q, via, text, given, sid, created) ==
    LET h == IF Truthy(sid) THEN History(sessions, sid) ELSE NoHistory IN
    /\ request' = [request EXCEPT ![q] =
                     [via |-> via, query |-> text, session_id |-> given]]
    /\ session_id' = [session_id EXCEPT ![q] = sid]
    /\ prompt' = [prompt EXCEPT ![q] = Prompt(text)]
    /\ history' = [history EXCEPT ![q] = h]
    /\ sessionOps' = [sessionOps EXCEPT ![q] =
                        [created |-> created,
                         fetched |-> IF Truthy(sid) THEN 1 ELSE 0,
                         appended |-> 0]]
    /\ system_content' = [system_content EXCEPT ![q] = SystemContent(h)]
    /\ nrequests' = nrequests + 1
    /\ response' = [response EXCEPT ![q] = NoReply]
    /\ Begin(q, Bind(RagArgs))
    /\ UNCHANGED sessions
    /\ UNCHANGED <<toolVars, startVars>>

\* create_session raised: rag_system.query is never called for the request,
\* and the exception is on its way to the handler's except clause.
CreateSessionRaises(q, text, given) ==
    /\ request' = [request EXCEPT ![q] =
                     [via |-> "http", query |-> text, session_id |-> given]]
    /\ session_id' = [session_id EXCEPT ![q] = given]
    /\ prompt' = [prompt EXCEPT ![q] = <<>>]
    /\ history' = [history EXCEPT ![q] = NoHistory]
    /\ sessionOps' = [sessionOps EXCEPT ![q] =
                        [created |-> 1, fetched |-> 0, appended |-> 0]]
    /\ system_content' = [system_content EXCEPT ![q] = SystemContent(NoHistory)]
    /\ nrequests' = nrequests + 1
    /\ response' = [response EXCEPT ![q] = NoReply]
    /\ pc' = [pc EXCEPT ![q] = "raised"]
    /\ failure' = [failure EXCEPT ![q] =
                     [kind |-> "session", calls |-> 0, execs |-> 0,
                      exc |-> SessionError]]
    /\ args' = [args EXCEPT ![q] = [tools |-> FALSE, mgr |-> FALSE, R |-> 0]]
    /\ messages' = [messages EXCEPT ![q] = <<>>]
    /\ round' = [round EXCEPT ![q] = 0]
    /\ resp' = [resp EXCEPT ![q] = NoResponse]
    /\ idx' = [idx EXCEPT ![q] = 0]
    /\ results' = [results EXCEPT ![q] = <<>>]
    /\ answer' = [answer EXCEPT ![q] = NoAnswer]
    /\ returned' = [returned EXCEPT ![q] = <<>>]
    /\ lastSources' = Stale(lastSources, q)
    /\ ncalls' = [ncalls EXCEPT ![q] = 0]
    /\ lastReq' = [lastReq EXCEPT ![q] = NoRequest]
    /\ stops' = [stops EXCEPT ![q] = <<>>]
    /\ execLog' = [execLog EXCEPT ![q] = <<>>]
    /\ UNCHANGED <<sessions, session_counter>>
    /\ UNCHANGED <<toolVars, startVars>>

\* POST /api/query through the call of rag_system.query: the request's
\* session id is kept, or create_session names a new session when there is
\* none, unless it raises.
QueryDocuments(q) ==
    /\ ApiEnded(q)
    /\ nrequests < MaxRequests
    /\ \E text \in QueryTexts, given \in RequestIds :
         IF ~Truthy(given)
         THEN \/ /\ session_counter' = session_counter + 1
                 /\ RagQuery(q, "http", text, given, SessionId(session_counter + 1), 1)
              \/ CreateSessionRaises(q, text, given)
         ELSE /\ UNCHANGED session_counter
              /\ RagQuery(q, "http", text, given, given, 0)

\* RAGSystem.query called by another caller, with or without a session id.
DirectQuery(q) ==
    /\ ApiEnded(q)
    /\ nrequests < MaxRequests
    /\ UNCHANGED session_counter
    /\ \E text \in QueryTexts, sid \in RequestIds :
         RagQuery(q, "direct", text, sid, sid, 0)

\* RAGSystem.query after the reset: the exchange is recorded when there is a
\* session id, and (answer, sources) returned.
AddExchange(q) ==
    /\ pc[q] = "returned"
    /\ request[q].via # "none"
    /\ IF Truthy(session_id[q])
       THEN /\ sessions' = [sessions EXCEPT ![session_id[q]] =
                              Append(@, Exchange(session_id[q], request[q].query,
                                                 answer[q]))]
            /\ sessionOps' = [sessionOps EXCEPT ![q].appended = @ + 1]
       ELSE UNCHANGED <<sessions, sessionOps>>
    /\ pc' = [pc EXCEPT ![q] = "answered"]
    /\ UNCHANGED <<request, session_id, history, prompt, system_content,
                   session_counter, response, nrequests>>
    /\ UNCHANGED <<genVars, toolVars, startVars>>

\* `return QueryResponse(answer=answer, sources=sources, session_id=session_id)`
Respond(q) ==
    /\ pc[q] = "answered"
    /\ request[q].via = "http"
    /\ response' = [response EXCEPT ![q] =
                      QueryResponse(answer[q], returned[q], session_id[q])]
    /\ pc' = [pc EXCEPT ![q] = "responded"]
    /\ UNCHANGED <<request, session_id, history, prompt, system_content,
                   sessionOps, sessions, session_counter, nrequests>>
    /\ UNCHANGED <<genVars, toolVars, startVars>>

\* `except Exception as e: raise HTTPException(status_code=500, detail=str(e))`
RespondError(q) ==
    /\ pc[q] = "raised"
    /\ request[q].via = "http"
    /\ response' = [response EXCEPT ![q] = ServerError(StrOf(failure[q].exc))]
    /\ pc' = [pc EXCEPT ![q] = "responded"]
    /\ UNCHANGED <<request, session_id, history, prompt, system_content,
                   sessionOps, sessions, session_counter, nrequests>>
    /\ UNCHANGED <<genVars, toolVars, startVars>>

Next ==
    \E q \in SeqQueries :
        \/ StartQuery(q)
        \/ EngineCall(q, Contents(MaxBlocks))
        \/ ExecBlock(q)
        \/ FinishRound(q)
        \/ SynthCall(q, Contents(MaxBlocks))
        \/ SingleCall(q, Contents(MaxBlocks))
        \/ Drain(q)
        \/ Reset(q)

Spec == Init /\ [][Next]_vars

\* A step of generate_response: an engine call that returns or raises, or
\* a block of _execute_tools whose tool returns or raises.
GenStep(q) ==
    \/ EngineCall(q, Contents(MaxBlocks))
    \/ ExecBlock(q)
    \/ FinishRound(q)
    \/ SynthCall(q, Contents(MaxBlocks))
    \/ SingleCall(q, Contents(MaxBlocks))

\* The same queries, with every engine call and every tool invocation
\* coming back: a call in progress is not left waiting for ever.
LiveSpec == Init /\ [][Next]_vars /\ \A q \in SeqQueries : WF_vars(GenStep(q))

ConcNext ==
    \E q \in Queries :
        \/ StartConcurrent(q)
        \/ EngineCall(q, Contents(ConcMaxBlocks))
        \/ ExecBlock(q)
        \/ FinishRound(q)
        \/ SynthCall(q, Contents(ConcMaxBlocks))
        \/ Drain(q)
        \/ Reset(q)

ConcSpec == Init /\ [][ConcNext]_vars

\* Requests served one at a time through the endpoint or by a direct call
\* of RAGSystem.query; the engine may name a tool that is not registered.
ApiNext ==
    \E q \in SeqQueries :
        \/ QueryDocuments(q)
        \/ DirectQuery(q)
        \/ EngineCall(q, AnyContents(ApiMaxBlocks))
        \/ ExecBlock(q)
        \/ FinishRound(q)
        \/ SynthCall(q, AnyContents(ApiMaxBlocks))
        \/ Drain(q)
        \/ Reset(q)
        \/ AddExchange(q)
        \/ Respond(q)
        \/ RespondError(q)

ApiSpec == Init /\ [][ApiNext]_vars

\* ------------------------------------------------ handlers on an event loop
\* A handler that awaits the query: the loop may run another handler while
\* the engine or a tool is being waited for.
YieldsDuringQuery(at) == at \in {"idle", "responded", "call", "exec", "synth"}

\* The positions at which the coroutine of query_documents does not hold
\* the event loop: before it is started and after it has returned or
\* raised.  Its body has no await, and rag_system.query is an ordinary call.
Yields(at) == at \in {"idle", "responded"}

\* The event loop starts the handler of a request: it runs one coroutine
\* at a time and switches only where the running one yields.  Slot q holds
\* the q-th request received.
HandleQuery(q) ==
    /\ q = nrequests + 1
    /\ \A p \in Queries : Yields(pc[p])
    /\ QueryDocuments(q)

\* Content templates of the engine's responses to these requests: text
\* blocks and invocations of the content-search tool, the tool with an
\* accumulation.
LoopContents(n) == {c \in SeqsUpTo({"text", "search"}, n) : Len(c) > 0}

\* Requests to POST /api/query served by the handlers of one event loop.
LoopNext ==
    \E q \in Queries :
        \/ HandleQuery(q)
        \/ EngineCall(q, LoopContents(ConcMaxBlocks))
        \/ ExecBlock(q)
        \/ FinishRound(q)
        \/ SynthCall(q, LoopContents(ConcMaxBlocks))
        \/ Drain(q)
        \/ Reset(q)
        \/ AddExchange(q)
        \/ Respond(q)
        \/ RespondError(q)

LoopSpec == Init /\ [][LoopNext]_vars

\* ------------------------------------------------------------ startup_event
\* `possible_docs_paths`, in the order of the list.
PossibleDocsPaths == <<"../docs", "docs", "../../docs", "./docs">>

\* The directory a candidate names: "./docs" is "docs" again.
Directory(path) == IF path = "./docs" THEN "docs" ELSE path

\* What one pass of the loop may find at its candidate: os.path.exists is
\* false; os.listdir raises; no file ends in .txt, .pdf or .docx;
\* add_course_folder raises; add_course_folder returns.
Findings == {"missing", "listdir_raised", "no_course_files", "load_raised", "loaded"}

\* The courses in the store before startup: none, or those of an earlier run.
EarlierStores == {{}, {"existing"}}

\* The directory tree does not change while startup_event runs: what is
\* found at a candidate agrees with what an earlier pass found at the same
\* directory.
Agrees(log, path, found) ==
    \A k \in DOMAIN log :
        Directory(log[k].path) = Directory(path)
        => /\ log[k].found = "missing" <=> found = "missing"
           /\ log[k].found = "no_course_files"
                 => found \in {"no_course_files", "listdir_raised"}
           /\ log[k].found \in {"load_raised", "loaded"}
                 => found \in {"load_raised", "loaded", "listdir_raised"}

\* The add_course_folder call made with clear_existing=True.
LoadArgsClearing(path) == [called |-> TRUE, path |-> path, clear_existing |-> TRUE]

\* `rag_system.add_course_folder(docs_path, clear_existing=False)`
LoadArgs(path) == [called |-> TRUE, path |-> path, clear_existing |-> FALSE]

NoLoad == [called |-> FALSE, path |-> "", clear_existing |-> FALSE]

\* The store after add_course_folder: cleared first when clear_existing is
\* set, and holding the folder's courses when the call returned.
AddCourseFolder(st, call, completes) ==
    (IF call.clear_existing THEN {} ELSE st)
        \cup (IF completes THEN {Directory(call.path)} ELSE {})

\* A loop without the break: the next candidate is tried after a load.
NextCandidateNoBreak(i, loaded) == i + 1

\* The candidate of the next pass: `break` after a load that returned
\* leaves the loop, anything else goes on to the next path of the list.
NextCandidate(i, loaded) == IF loaded THEN Len(PossibleDocsPaths) + 1 ELSE i + 1

\* startup_event up to the loop: `docs_loaded = False`.
StartupBegin ==
    /\ startPc = "init"
    /\ startPc' = "loop"
    /\ docs_path' = 1
    /\ docs_loaded' = FALSE
    /\ tried' = <<>>
    /\ vector_store' \in EarlierStores
    /\ UNCHANGED <<pc, genVars, apiVars, toolVars>>

\* One pass of `for docs_path in possible_docs_paths`.
TryCandidate(found) ==
    LET path == PossibleDocsPaths[docs_path]
        call == IF found \in {"load_raised", "loaded"} THEN LoadArgs(path) ELSE NoLoad
        next == NextCandidate(docs_path, found = "loaded")
    IN /\ startPc = "loop"
       /\ Agrees(tried, path, found)
       /\ tried' = Append(tried, [path |-> path, found |-> found, call |-> call])
       /\ vector_store' = IF call.called
                          THEN AddCourseFolder(vector_store, call, found = "loaded")
                          ELSE vector_store
       /\ docs_loaded' = (docs_loaded \/ found = "loaded")
       /\ docs_path' = next
       /\ startPc' = IF next > Len(PossibleDocsPaths) THEN "after" ELSE "loop"
       /\ UNCHANGED <<pc, genVars, apiVars, toolVars>>

\* After the loop: with nothing loaded the working directory is listed
\* (outside any try) and the store is asked for its course count, which
\* sets docs_loaded when it is positive; the final status asks the store
\* again when docs_loaded, outside any try.
StartupFinish(listRaises, countRaises, statusRaises) ==
    LET counted == ~docs_loaded /\ ~listRaises /\ ~countRaises /\ vector_store # {}
        loaded == docs_loaded \/ counted
    IN /\ startPc = "after"
       /\ docs_loaded' = loaded
       /\ startPc' = IF \/ ~docs_loaded /\ listRaises
                        \/ loaded /\ statusRaises
                     THEN "raised" ELSE "done"
       /\ UNCHANGED <<docs_path, tried, vector_store>>
       /\ UNCHANGED <<pc, genVars, apiVars, toolVars>>

StartNext ==
    \/ StartupBegin
    \/ \E found \in Findings : TryCandidate(found)
    \/ \E l \in BOOLEAN, c \in BOOLEAN, s \in BOOLEAN : StartupFinish(l, c, s)

StartSpec == Init /\ [][StartNext]_vars

\* ------------------------------------------------- registry and its tools
\* ToolManager.register_tool: a definition without a name raises and stores
\* nothing.
Register(tool) ==
    /\ IF ~ToolDefinition(tool).name.some
       THEN /\ regRaised' = Exc("ValueError", "Tool must have a 'name' in its definition")
            /\ UNCHANGED registry
       ELSE /\ registry' = RegisterTool(registry, tool)
            /\ regRaised' = NoException
    /\ UNCHANGED <<lastExec, drained>>
    /\ UNCHANGED <<pc, genVars, apiVars, startVars>>

\* ToolManager.execute_tool(name, **kwargs): the tool registered under the
\* name is executed with the same arguments and what it returns is returned;
\* an unknown name gets the not-found string.
ExecuteTool(name, kwargs) ==
    LET i == Lookup(registry, name) IN
    /\ IF i = 0
       THEN /\ lastExec' =
                 [name |-> name, kwargs |-> Some(kwargs), tool |-> 0,
                  received |-> None, ret |-> <<"Tool '", name, "' not found">>,
                  results |-> None, resolved |-> None, catalog |-> <<>>,
                  content |-> <<>>]
            /\ UNCHANGED registry
       ELSE \E cat \in CatalogResults, index \in IndexBehaviours :
              LET out == IF registry[i].tool.kind = "search"
                         THEN SearchExecute(kwargs, cat, index)
                         ELSE OutlineExecute(kwargs, cat, registry[i].tool.accumulates)
              IN  /\ lastExec' =
                       [name |-> name, kwargs |-> Some(kwargs), tool |-> i,
                        received |-> Some(kwargs), ret |-> out.ret,
                        results |-> out.results, resolved |-> out.resolved,
                        catalog |-> out.catalog, content |-> out.content]
                  /\ registry' =
                       IF out.sources.some
                       THEN [registry EXCEPT ![i].last_sources =
                                                Accumulate(@, out.sources.val)]
                       ELSE registry
    /\ UNCHANGED <<regRaised, drained>>
    /\ UNCHANGED <<pc, genVars, apiVars, startVars>>

\* The caller reads the sources of the registry ...
DrainRegistry ==
    /\ drained' = GetLastSources(registry)
    /\ UNCHANGED <<registry, regRaised, lastExec>>
    /\ UNCHANGED <<pc, genVars, apiVars, startVars>>

\* ... and resets them.
ResetRegistry ==
    /\ registry' = ResetAllSources(registry)
    /\ UNCHANGED <<regRaised, lastExec, drained>>
    /\ UNCHANGED <<pc, genVars, apiVars, startVars>>

\* The registry and its tools driven by any caller: tools registered,
\* invoked by name, the sources read and reset, in any order.
ToolNext ==
    \/ \E tool \in ToolInstances : Register(tool)
    \/ \E kwargs \in SearchKwargs : ExecuteTool("search_course_content", kwargs)
    \/ \E name \in InvokedNames \ {"search_course_content"}, kwargs \in OutlineKwargs :
           ExecuteTool(name, kwargs)
    \/ DrainRegistry
    \/ ResetRegistry

ToolSpec == Init /\ [][ToolNext]_vars

\* ------------------------------------------------------------- properties
GenEnded(q) == pc[q] \in {"done", "failed", "raised", "drained", "returned"}

\* Rounds whose tool-results turn was appended: every invocation returned.
ToolRounds(q) ==
    Cardinality({i \in DOMAIN messages[q] : messages[q][i].kind = "tool_results"})

\* C1: for every maximum R >= 0, when all R in-loop responses requested tool
\* use and every invocation returned normally, the call ends having made
\* exactly R+1 engine calls, the last of them (sent with the accumulated
\* turns) carrying neither tools nor tool_choice; before that last call the
\* call count is R.
C1_MaxRoundsCalls ==
    \A q \in Queries :
        (/\ pc[q] # "idle"
         /\ UseSequentialRounds(args[q])
         /\ args[q].R >= 0
         /\ ToolRounds(q) = args[q].R)
        => \/ pc[q] = "synth" /\ ncalls[q] = args[q].R
           \/ /\ GenEnded(q)
              /\ ncalls[q] = args[q].R + 1
              /\ ~lastReq[q].tools
              /\ ~lastReq[q].tool_choice
              /\ lastReq[q].messages = messages[q]

C1_Witness ==
    \E q \in Queries :
        /\ pc[q] = "done"
        /\ args[q].R = 2
        /\ ToolRounds(q) = 2
        /\ ncalls[q] = 3
        /\ Len(execLog[q]) >= 2

\* C2: when an execute_tool call raised in round k, it is the last
\* invocation attempted, exactly k engine calls were made, and
\* generate_response returned the fixed apology (it did not raise).
C2_ToolExceptionAborts ==
    \A q \in Queries :
        \A i \in DOMAIN execLog[q] :
            execLog[q][i].raised
            => /\ i = Len(execLog[q])
               /\ ncalls[q] = execLog[q][i].id[1]
               /\ round[q] = ncalls[q] - 1
               /\ answer[q] = Apology
               /\ pc[q] \in {"failed", "drained", "returned"}
               /\ failure[q] = NoFailure

C2_Witness ==
    \E q \in Queries :
        /\ pc[q] = "failed"
        /\ ncalls[q] = 2
        /\ Len(resp[q].content) = 2
        /\ resp[q].content[2].type = "tool_use"
        /\ Last(execLog[q]).raised
        /\ Last(execLog[q]).id = <<2, 1>>

\* C3: with tools and a tool manager supplied, when the first engine response
\* does not signal tool use, exactly one engine call is made and no tool is
\* ever executed.
C3_FirstResponseNoToolUse ==
    \A q \in Queries :
        (/\ UseSequentialRounds(args[q])
         /\ stops[q] # <<>>
         /\ stops[q][1] # "tool_use")
        => /\ ncalls[q] = 1
           /\ execLog[q] = <<>>
           /\ pc[q] \in {"done", "raised", "drained", "returned"}

C3_Witness ==
    \E q \in Queries :
        /\ UseSequentialRounds(args[q])
        /\ args[q].R = 2
        /\ stops[q] = <<"max_tokens">>
        /\ Len(resp[q].content) = 2
        /\ resp[q].content[2].type = "tool_use"
        /\ pc[q] = "returned"

\* C4: with no tool set supplied (tools absent or empty), exactly one engine
\* call is made, its request carries neither tools nor tool_choice, and no
\* tool is executed, whether or not a tool manager is supplied.
C4_NoToolsSingleCall ==
    \A q \in Queries :
        (pc[q] # "idle" /\ ~args[q].tools)
        => /\ execLog[q] = <<>>
           /\ \/ pc[q] = "single" /\ ncalls[q] = 0
              \/ /\ GenEnded(q)
                 /\ ncalls[q] = 1
                 /\ ~lastReq[q].tools
                 /\ ~lastReq[q].tool_choice

C4_Witness ==
    \E q \in Queries :
        /\ ~args[q].tools
        /\ args[q].mgr
        /\ args[q].R = 2
        /\ pc[q] = "returned"
        /\ ncalls[q] = 1
        /\ resp[q].stop = "tool_use"

SynthIssued(q) ==
    UseSequentialRounds(args[q]) /\ ncalls[q] > 0 /\ ~lastReq[q].tools

\* The latest engine call returned a response (it did not raise).
ResponseInHand(q) == ncalls[q] > 0 /\ Len(stops[q]) = ncalls[q]

\* C6: once the synthesis call has been issued no tool is executed, and
\* whatever stop reason or content its response carries, the query ends with
\* that response as its answer.
C6_SynthesisEndsWithAnswer ==
    \A q \in Queries :
        (SynthIssued(q) /\ round[q] = args[q].R /\ ResponseInHand(q))
        => /\ \A i \in DOMAIN execLog[q] : execLog[q][i].id[1] < ncalls[q]
           /\ pc[q] \in {"done", "drained", "returned"}
           /\ answer[q].kind = "text"
           /\ answer[q].id[1] = ncalls[q]

\* The part of C6 that the code keeps: after the synthesis call no tool is
\* executed and no further engine call is made, and the query ends either
\* with the text of the response's first block or, when the first block is
\* not a text block, with the exception of `content[0].text`.
C6_NoToolsAfterSynthesis ==
    \A q \in Queries :
        SynthIssued(q)
        => /\ \A i \in DOMAIN execLog[q] : execLog[q][i].id[1] < ncalls[q]
           /\ ncalls[q] = ToolRounds(q) + 1
           /\ pc[q] \in {"done", "raised", "drained", "returned"}
           /\ (ResponseInHand(q) /\ HasFirstText(resp[q].content))
              => answer[q] = TextAnswer(resp[q].content[1])
           /\ (ResponseInHand(q) /\ ~HasFirstText(resp[q].content))
              => pc[q] = "raised" /\ failure[q].kind = "extract"

\* C7: a failed engine call (single path, in-loop or synthesis) ends
\* generate_response with the exception: nothing is returned (no apology, no
\* substitute answer, no sources), the call is not retried, and no tool is
\* executed after it.
C7_EngineFailurePropagates ==
    \A q \in Queries :
        failure[q].kind = "engine"
        => /\ pc[q] = "raised"
           /\ answer[q] = NoAnswer
           /\ returned[q] = <<>>
           /\ ncalls[q] = failure[q].calls
           /\ Len(stops[q]) = ncalls[q] - 1
           /\ Len(execLog[q]) = failure[q].execs

C7_Witness ==
    \E q \in Queries :
        /\ failure[q].kind = "engine"
        /\ failure[q].calls = 2
        /\ failure[q].execs = 2
        /\ lastReq[q].tools
        /\ pc[q] = "raised"

\* C8: the source list returned with a query's answer holds only records
\* produced by tool executions of that same query, for every sequence of
\* queries answered one after another, also after a query that ended with a
\* propagated engine failure.
C8_SourcesOfThisQueryOnly ==
    \A q \in Queries :
        pc[q] \in {"drained", "returned"}
        => \A i \in DOMAIN returned[q] : returned[q][i].by = q

\* A query is between its start and its return to the caller.
InFlight(p) == pc[p] \in {"call", "exec", "synth", "single", "done", "failed", "drained"}

\* C9: with two unserialized queries on the same registry and tool instance,
\* the list a query drains is whatever the shared accumulation holds at that
\* moment, and a record of the other query is in it only when that query is
\* itself still in flight (it has not yet reset) or died without resetting;
\* C9_Witness is the interleaving in which this happens.
C9_SharedAccumulationHazard ==
    [][\A q \in Queries :
          (pc[q] \in {"done", "failed"} /\ pc'[q] = "drained")
          => /\ returned'[q] = lastSources
             /\ \A i \in DOMAIN lastSources :
                   lastSources[i].by # q
                   => /\ lastSources[i].by \in Queries
                      /\ \/ InFlight(lastSources[i].by)
                         \/ pc[lastSources[i].by] = "raised"]_vars

C9_Witness ==
    \E q \in Queries, p \in Queries :
        /\ p # q
        /\ pc[q] = "drained"
        /\ pc[p] \in {"call", "exec", "synth"}
        /\ \E i \in DOMAIN returned[q] : returned[q][i].by = p

\* The other half of the hazard: a query whose own search returned passages
\* is handed an empty list because the other query reset in between.
C9_LostRecordsReached ==
    \E q \in Queries, p \in Queries :
        /\ p # q
        /\ pc[q] = "drained"
        /\ returned[q] = <<>>
        /\ pc[p] = "returned"
        /\ \E i \in DOMAIN messages[q] :
              /\ messages[q][i].kind = "tool_results"
              /\ \E j \in DOMAIN messages[q][i].blocks :
                    messages[q][i].blocks[j].content = "passages"

\* C10: every turn of a call's message list, and every turn of every engine
\* request made for a query, was appended while answering that query.
C10_OwnTurnsOnly ==
    \A q \in Queries :
        /\ \A i \in DOMAIN messages[q] : messages[q][i].by = q
        /\ \A i \in DOMAIN lastReq[q].messages : lastReq[q].messages[i].by = q

C10_Witness ==
    \E q \in Queries, p \in Queries :
        /\ p # q
        /\ Len(lastReq[q].messages) = 3
        /\ Len(lastReq[p].messages) = 3
        /\ pc[q] = "synth" \/ pc[q] = "done"
        /\ InFlight(p)

\* The names the registry holds a tool under.
Registered == BlockKinds \ {"text"}

InSeq(x, s) == \E j \in DOMAIN s : s[j] = x

\* The generate_response call of q has returned a string.
Answered(q) == pc[q] \in {"done", "failed", "drained", "returned", "answered", "responded"}

\* The string an execute_tool call e of q returned is carried on as an
\* ordinary ToolResult: while its round k is executing it is among the
\* results collected; once the round has completed it is in the round's
\* tool-results turn (turn 2k+1), the loop stands before its next engine
\* call, and that call's request carries the turn.  The round is cut short
\* only by an execute_tool call, other than e, that raised.
Carried(q, e) ==
    LET k == e.id[1]
        r == [type |-> "tool_result", tool_use_id |-> e.id, content |-> e.out]
    IN
    /\ ncalls[q] >= k
    /\ IF ToolRounds(q) >= k
       THEN /\ Len(messages[q]) >= 2 * k + 1
            /\ messages[q][2 * k + 1].role = "user"
            /\ messages[q][2 * k + 1].kind = "tool_results"
            /\ InSeq(r, messages[q][2 * k + 1].blocks)
            /\ IF ncalls[q] = k
               THEN pc[q] \in {"call", "synth"}
               ELSE /\ Len(lastReq[q].messages) >= 2 * k + 1
                    /\ lastReq[q].messages[2 * k + 1] = messages[q][2 * k + 1]
       ELSE /\ ncalls[q] = k
            /\ \/ pc[q] = "exec" /\ InSeq(r, results[q])
               \/ /\ Answered(q)
                  /\ Last(execLog[q]).raised
                  /\ Last(execLog[q]) # e

\* C11: a tool_use block naming a tool that is not registered is answered,
\* without raising, by the not-found string; that alone never puts the call
\* in the failed state or yields the apology, and the string is the content
\* of the block's ToolResult in the request of the next engine call.
C11_UnknownToolSoftFailure ==
    \A q \in Queries :
        \A i \in DOMAIN execLog[q] :
            execLog[q][i].name \notin Registered
            => /\ ~execLog[q][i].raised
               /\ execLog[q][i].out = "not_found"
               /\ Carried(q, execLog[q][i])
               /\ (\A j \in DOMAIN execLog[q] : ~execLog[q][j].raised)
                  => /\ pc[q] # "failed"
                     /\ answer[q] # Apology

C11_Witness ==
    \E q \in Queries :
        /\ pc[q] = "done"
        /\ ncalls[q] = 2
        /\ execLog[q] # <<>>
        /\ execLog[q][1].name = "nosuch"
        /\ lastReq[q].tools
        /\ lastReq[q].messages[3].blocks[1].content = "not_found"
        /\ lastReq[q].messages[3].blocks[1].tool_use_id = <<1, 1>>

\* C12: an index-layer failure of the content search comes back as the
\* tool's result string, not as an exception: it never aborts the call, it
\* is delivered as an ordinary ToolResult, and the loop goes on to its next
\* engine call, whose request carries it, instead of returning the apology.
C12_IndexFailureIsToolResult ==
    \A q \in Queries :
        \A i \in DOMAIN execLog[q] :
            (execLog[q][i].name = "search" /\ execLog[q][i].out = "index_error")
            => /\ ~execLog[q][i].raised
               /\ Carried(q, execLog[q][i])
               /\ (\A j \in DOMAIN execLog[q] : ~execLog[q][j].raised)
                  => /\ ~Answered(q) \/ answer[q].kind = "text"
                     /\ ToolRounds(q) >= execLog[q][i].id[1]
                        => ncalls[q] > ToolRounds(q) \/ pc[q] \in {"call", "synth"}

C12_Witness ==
    \E q \in Queries :
        /\ pc[q] = "done"
        /\ ncalls[q] = 3
        /\ Len(execLog[q]) = 3
        /\ execLog[q][1].out = "index_error"
        /\ execLog[q][2].out = "index_error"
        /\ ~lastReq[q].tools
        /\ Len(lastReq[q].messages) = 5
        /\ Len(lastReq[q].messages[3].blocks) = 2
        /\ lastReq[q].messages[3].blocks[2].content = "index_error"
        /\ lastReq[q].messages[5].blocks[1].content = "passages"

\* No tool result of these turns has an exception's text as its content.
NoExceptionText(msgs) ==
    \A i \in DOMAIN msgs :
        msgs[i].kind = "tool_results"
        => \A j \in DOMAIN msgs[i].blocks : msgs[i].blocks[j].content \notin Exceptions

\* The latest execute_tool call of q raised.
ToolFailed(q) == execLog[q] # <<>> /\ Last(execLog[q]).raised

\* C13: the step in which a tool raises leaves a state that, but for the
\* logged exception, is determined by the state before it: the fixed
\* apology is the answer whatever the exception's type and message.  Any
\* two calls ended by a raising tool hold the identical apology, no engine
\* request follows the failure, and no exception text is in the answer or
\* in any turn sent to the engine.
C13_ApologyNonLeaky ==
    /\ [][\A q \in Queries :
            (Len(execLog'[q]) = Len(execLog[q]) + 1 /\ Last(execLog'[q]).raised)
            => /\ Last(execLog'[q]).out \in Exceptions
               /\ answer' = [answer EXCEPT ![q] =
                               [kind |-> "apology", id |-> <<0, 0>>]]
               /\ pc' = [pc EXCEPT ![q] = "failed"]
               /\ \A e \in Exceptions :
                     ENABLED (/\ ExecBlock(q)
                              /\ Last(execLog'[q]).out = e
                              /\ answer'[q] = [kind |-> "apology", id |-> <<0, 0>>])
               /\ UNCHANGED <<args, messages, round, resp, idx, results, returned,
                              lastSources, ncalls, lastReq, stops, failure>>]_vars
    /\ [](\A q \in Queries, p \in Queries :
            (ToolFailed(q) /\ ToolFailed(p))
            => /\ answer[q] = answer[p]
               /\ answer[q].kind = "apology"
               /\ answer[q].kind \notin Exceptions
               /\ ncalls[q] = Last(execLog[q]).id[1]
               /\ NoExceptionText(messages[q])
               /\ NoExceptionText(lastReq[q].messages))

C13_Witness ==
    /\ pc[1] = "failed"
    /\ pc[2] = "returned"
    /\ ToolFailed(1)
    /\ ToolFailed(2)
    /\ Last(execLog[1]).out # Last(execLog[2]).out
    /\ Last(execLog[1]).name = Last(execLog[2]).name
    /\ stops[1] = stops[2]
    /\ args[1] = args[2]
    /\ answer[1] = answer[2]

\* C14: the reset that follows a drain leaves the accumulation of every
\* registered tool empty; an empty accumulation stays empty while no tool is
\* executed, so a drain made then returns the empty list; between the return
\* of one query and the next tool execution a drain returns the empty list.
C14_DrainResetLeavesEmpty ==
    /\ [][\A q \in Queries :
            (pc[q] = "drained" /\ pc'[q] = "returned")
            => /\ returned[q] = lastSources
               /\ lastSources' = <<>>
               /\ DrainSources(lastSources') = <<>>]_vars
    /\ [][(/\ lastSources = <<>>
           /\ \A q \in Queries : Len(execLog'[q]) <= Len(execLog[q]))
          => DrainSources(lastSources') = <<>>]_vars
    /\ [](\A q \in Queries :
            (pc[q] = "returned" \/ (pc[q] = "drained" /\ lastSources = <<>>))
            => DrainSources(ResetSources(lastSources)) = <<>>)
    /\ [](\A q \in Queries : pc[q] = "returned" => DrainSources(lastSources) = <<>>)

C14_Witness ==
    \E q \in Queries :
        /\ pc[q] = "returned"
        /\ Len(returned[q]) = 2
        /\ returned[q][1].by = q
        /\ lastSources = <<>>

\* C15: the list drained at the end of a query holds the records of every
\* content-search call of that query that returned passages.
C15_AllServicedCallsCovered ==
    \A q \in Queries :
        pc[q] \in {"drained", "returned"}
        => \A i \in DOMAIN execLog[q] :
              (execLog[q][i].name = "search" /\ execLog[q][i].out = "passages")
              => \E j \in DOMAIN returned[q] :
                    /\ returned[q][j].by = q
                    /\ returned[q][j].inv = execLog[q][i].id

\* The part of C15 that holds: the drained list holds the records of the
\* last content-search call that returned passages before the drain.
C15_LastCallCovered ==
    \A q \in Queries :
        (pc[q] \in {"drained", "returned"} /\ returned[q] # <<>>
         /\ returned[q][1].by = q)
        => \E i \in DOMAIN execLog[q] :
              /\ execLog[q][i].out = "passages"
              /\ \A j \in DOMAIN returned[q] : returned[q][j].inv = execLog[q][i].id
              /\ \A k \in (i + 1)..Len(execLog[q]) : execLog[q][k].out # "passages"

\* C16 as stated: the first engine call carries the tool schemas exactly
\* when the caller supplied a tool set, for every max_rounds and with or
\* without a tool manager.
C16_FirstCallToolsIffSupplied ==
    \A q \in Queries :
        ncalls[q] = 1 => (lastReq[q].tools <=> args[q].tools)

\* C16, amended: the first engine call omits the tool schemas exactly when
\* the caller supplied no tool set, or supplied a tool set and a tool
\* manager with max_rounds <= 0 (the first call is then the final call);
\* tool_choice is present exactly when the schemas are.
C16_FirstCallToolsUnlessNoRounds ==
    \A q \in Queries :
        ncalls[q] = 1
        => /\ ~lastReq[q].tools
              <=> (~args[q].tools \/ (args[q].mgr /\ args[q].R <= 0))
           /\ lastReq[q].tool_choice <=> lastReq[q].tools
           /\ Len(lastReq[q].messages) = 1

C16_Witness ==
    \E q \in Queries :
        /\ args[q].tools
        /\ args[q].mgr
        /\ args[q].R = 0
        /\ ncalls[q] = 1
        /\ ~lastReq[q].tools
        /\ pc[q] = "done"

\* C17: with tools but no tool manager, exactly one engine call is made, no
\* tool is executed even when the response requests tool use, and the
\* answer is the text of the first text block of the response, or the fixed
\* fallback string when no block is a text block.
C17_NoManagerSingleCall ==
    \A q \in Queries :
        (pc[q] # "idle" /\ args[q].tools /\ ~args[q].mgr)
        => /\ execLog[q] = <<>>
           /\ messages[q] = <<UserTurn(q)>>
           /\ \/ pc[q] = "single" /\ ncalls[q] = 0
              \/ /\ GenEnded(q)
                 /\ ncalls[q] = 1
                 /\ lastReq[q].tools
                 /\ ResponseInHand(q)
                    => LET c == resp[q].content
                           texts == {i \in DOMAIN c : c[i].type = "text"} IN
                       /\ pc[q] # "raised"
                       /\ texts = {} => answer[q] = Fallback
                       /\ texts # {}
                          => \E i \in texts :
                                /\ \A j \in texts : i <= j
                                /\ answer[q] = [kind |-> "text", id |-> c[i].id]

C17_Witness ==
    \E q \in Queries :
        /\ args[q].tools
        /\ ~args[q].mgr
        /\ pc[q] = "done"
        /\ resp[q].stop = "tool_use"
        /\ Len(resp[q].content) = 2
        /\ resp[q].content[1].type = "tool_use"
        /\ answer[q] = TextAnswer(resp[q].content[2])

\* The other case of C17: a response without any text block.
C17_FallbackReached ==
    \E q \in Queries :
        /\ args[q].tools
        /\ ~args[q].mgr
        /\ pc[q] = "returned"
        /\ resp[q].stop = "tool_use"
        /\ Len(resp[q].content) = 2
        /\ answer[q] = Fallback

\* A request whose query reached RAGSystem.query is being served, or was the
\* last one served, in slot q.
Serving(q) == request[q].via # "none" /\ failure[q].kind # "session"

\* C18: a caller that leaves max_rounds out gets the maximum 2: its query
\* performs at most 2 rounds of tool execution and at most 3 engine calls.
C18_DefaultMaxRoundsIsTwo ==
    \A q \in Queries :
        Serving(q)
        => /\ "R" \notin DOMAIN RagArgs
           /\ args[q].R = 2
           /\ round[q] <= 2
           /\ ToolRounds(q) <= 2
           /\ \A i \in DOMAIN execLog[q] : execLog[q][i].id[1] <= 2
           /\ ncalls[q] <= 3

C18_Witness ==
    \E q \in Queries :
        /\ Serving(q)
        /\ pc[q] = "done"
        /\ ToolRounds(q) = 2
        /\ ncalls[q] = 3
        /\ stops[q] = <<"tool_use", "tool_use", "tool_use">>
        /\ ~lastReq[q].tools

\* C19: with a session id, the history is fetched exactly once, before any
\* engine call, and exactly one exchange (session id, the caller's own query
\* text, the returned answer) is appended, after the answer is produced and
\* to that session only; without a session id nothing is fetched or
\* appended and the engine's system parameter has no conversation history.
C19_SessionOpsOncePerQuery ==
    /\ [][/\ \A q \in Queries :
               IF nrequests' # nrequests
               THEN /\ sessionOps'[q].appended = 0
                    /\ sessions' = sessions
                    /\ IF ~session_id'[q].none /\ session_id'[q].text # <<>>
                       THEN /\ sessionOps'[q].fetched = 1
                            /\ history'[q] = sessions[session_id'[q]]
                       ELSE /\ sessionOps'[q].fetched = 0
                            /\ history'[q] = <<>>
               ELSE /\ sessionOps'[q].fetched = sessionOps[q].fetched
                    /\ history'[q] = history[q]
                    /\ system_content'[q] = system_content[q]
                    /\ sessionOps'[q].appended # sessionOps[q].appended
                       => /\ sessionOps[q].appended = 0
                          /\ sessionOps'[q].appended = 1
                          /\ pc[q] = "returned"
                          /\ answer[q] # NoAnswer
                          /\ prompt[q] = <<"Answer this question about course materials: ",
                                          request[q].query>>
                          /\ sessions' =
                                [sessions EXCEPT ![session_id[q]] =
                                    Append(@, [session_id |-> session_id[q],
                                               user |-> request[q].query,
                                               answer |-> answer[q]])]
          /\ sessions' # sessions
             => \E q \in Queries :
                   sessionOps'[q].appended = sessionOps[q].appended + 1]_vars
    /\ [](\A q \in Queries :
            Serving(q)
            => IF ~session_id[q].none /\ session_id[q].text # <<>>
               THEN /\ sessionOps[q].fetched = 1
                    /\ sessionOps[q].appended =
                          IF pc[q] = "answered" \/ response[q].status = 200
                          THEN 1 ELSE 0
                    /\ system_content[q] =
                          IF history[q] = <<>> THEN <<"SYSTEM_PROMPT">>
                          ELSE <<"SYSTEM_PROMPT", "Previous conversation:", history[q]>>
               ELSE /\ sessionOps[q].fetched = 0
                    /\ sessionOps[q].appended = 0
                    /\ history[q] = <<>>
                    /\ system_content[q] = <<"SYSTEM_PROMPT">>)

C19_Witness ==
    \E q \in Queries :
        /\ nrequests = 2
        /\ pc[q] = "answered"
        /\ answer[q].kind = "text"
        /\ Len(history[q]) = 1
        /\ Len(system_content[q]) = 3
        /\ Len(sessions[session_id[q]]) = 2
        /\ sessionOps[q] = [created |-> 0, fetched |-> 1, appended |-> 1]

\* The other case of C19: a query without a session id has been answered.
C19_NoSessionReached ==
    \E q \in Queries :
        /\ pc[q] = "answered"
        /\ session_id[q] = NoneId
        /\ ncalls[q] = 3
        /\ \A sid \in SessionIds : sessions[sid] = <<>>

\* C20: the endpoint keeps a supplied session id and does not call
\* create_session; with an absent or empty id it calls create_session
\* exactly once; the id passed to rag_system.query is the id of the
\* response.
C20_SessionIdOfResponse ==
    /\ [][session_counter' # session_counter
          => /\ session_counter' = session_counter + 1
             /\ \E q \in Queries :
                   /\ request'[q].via = "http"
                   /\ request'[q].session_id \in {NoneId, EmptyId}
                   /\ sessionOps'[q].created = 1
                   /\ failure'[q].kind # "session"
                   /\ session_id'[q] = SessionId(session_counter')]_vars
    /\ [](\A q \in Queries :
            request[q].via = "http"
            => /\ IF request[q].session_id \in {NoneId, EmptyId}
                  THEN /\ sessionOps[q].created = 1
                       /\ failure[q].kind # "session"
                          => session_id[q] \in SessionIds
                  ELSE /\ sessionOps[q].created = 0
                       /\ session_id[q] = request[q].session_id
               /\ response[q].status = 200
                  => /\ response[q].session_id = session_id[q]
                     /\ response[q].answer = answer[q]
                     /\ response[q].sources = returned[q]
               /\ failure[q].kind # "session" => sessionOps[q].fetched = 1)

C20_Witness ==
    \E q \in Queries :
        /\ request[q].via = "http"
        /\ request[q].session_id = EmptyId
        /\ response[q].status = 200
        /\ response[q].session_id = SessionId(2)
        /\ session_counter = 2
        /\ sessionOps[q].created = 1

\* The other case of C20: a supplied id comes back unchanged.
C20_SuppliedReached ==
    \E q \in Queries :
        /\ request[q].via = "http"
        /\ request[q].session_id = SessionId(2)
        /\ response[q].status = 200
        /\ response[q].session_id = SessionId(2)
        /\ session_counter = 0

\* C21: an exception raised while POST /api/query is handled (by
\* create_session or inside rag_system.query, a propagated engine failure
\* included) is answered with status 500 whose detail is the text of that
\* exception; the response carries no answer and no sources, and no 200
\* response follows a raised exception.
C21_ExceptionGives500 ==
    /\ [][\A q \in Queries :
            pc[q] = "raised" /\ request[q].via = "http" /\ pc'[q] # pc[q]
            => /\ response'[q].status = 500
               /\ response'[q].detail = failure[q].exc.msg
               /\ failure'[q] = failure[q]]_vars
    /\ [](\A q \in Queries :
            /\ response[q].status = 500
               => /\ response[q].answer = [kind |-> "none", id |-> <<0, 0>>]
                  /\ response[q].sources = <<>>
                  /\ answer[q] = [kind |-> "none", id |-> <<0, 0>>]
                  /\ returned[q] = <<>>
                  /\ failure[q].kind \in {"session", "engine", "extract"}
                  /\ failure[q].kind = "session"
                     => /\ response[q].detail = "session store unavailable"
                        /\ ncalls[q] = 0
                  /\ failure[q].kind = "engine"
                     => response[q].detail = "Connection error."
                  /\ failure[q].kind = "extract"
                     => response[q].detail =
                           IF Len(resp[q].content) = 0
                           THEN "list index out of range"
                           ELSE "'ToolUseBlock' object has no attribute 'text'"
            /\ response[q].status = 200 => failure[q].kind = "none")

\* An engine failure in the call after one round of tools reached the client
\* as a 500.
C21_Witness ==
    \E q \in Queries :
        /\ request[q].via = "http"
        /\ pc[q] = "responded"
        /\ response[q].status = 500
        /\ failure[q].kind = "engine"
        /\ ncalls[q] = 2
        /\ Len(execLog[q]) = 1
        /\ response[q].detail = "Connection error."

\* The other cases of C21: create_session raised, and the answer could not
\* be taken from the response.
C21_SessionFailureReached ==
    \E q \in Queries :
        /\ response[q].status = 500
        /\ failure[q].kind = "session"
        /\ request[q].session_id = EmptyId

C21_ExtractFailureReached ==
    \E q \in Queries :
        /\ response[q].status = 500
        /\ failure[q].kind = "extract"
        /\ Len(resp[q].content) > 0

\* Block id a comes before block id b: an earlier engine response, or an
\* earlier position in the same response.
Before(a, b) == a[1] < b[1] \/ (a[1] = b[1] /\ a[2] < b[2])

\* C28: tool invocations are dispatched one at a time in the order the
\* engine emitted them: an invocation starts only when every tool_use block
\* before it in the same response has been executed and has returned, and an
\* invocation of response k starts only when engine call k has returned and
\* no later call has been made.
C28_SequentialDispatch ==
    /\ [][\A q \in Queries :
            execLog'[q] # execLog[q] /\ execLog'[q] # <<>>
            => LET e == execLog'[q][Len(execLog'[q])] IN
               /\ execLog'[q] = Append(execLog[q], e)
               /\ ncalls'[q] = ncalls[q]
               /\ e.id[1] = ncalls[q]
               /\ Len(stops[q]) = ncalls[q]
               /\ stops[q][ncalls[q]] = "tool_use"
               /\ e.id[2] \in DOMAIN resp[q].content
               /\ resp[q].content[e.id[2]] =
                     [type |-> "tool_use", name |-> e.name, id |-> e.id]
               /\ \A j \in 1..(e.id[2] - 1) :
                     resp[q].content[j].type = "tool_use"
                     => \E i \in DOMAIN execLog[q] :
                           /\ execLog[q][i].id = <<ncalls[q], j>>
                           /\ ~execLog[q][i].raised
               /\ \A i \in DOMAIN execLog[q] :
                     /\ Before(execLog[q][i].id, e.id)
                     /\ ~execLog[q][i].raised]_vars
    /\ [](\A q \in Queries : \A i, j \in DOMAIN execLog[q] :
            i < j => Before(execLog[q][i].id, execLog[q][j].id))

\* Two rounds of two invocations each, dispatched in the emitted order.
C28_Witness ==
    \E q \in Queries :
        /\ Len(execLog[q]) = 4
        /\ execLog[q][1].id = <<1, 1>>
        /\ execLog[q][2].id = <<1, 2>>
        /\ execLog[q][3].id = <<2, 1>>
        /\ execLog[q][4].id = <<2, 2>>
        /\ execLog[q][1].name # execLog[q][2].name
        /\ ~execLog[q][4].raised

\* The tool_use blocks of a content list, in order.
ToolUses(blocks) ==
    LET IsToolUse(b) == b.type = "tool_use" IN SelectSeq(blocks, IsToolUse)

\* C29: every tool-results turn follows an assistant turn and holds exactly
\* one tool_result per tool_use block of that turn, in the same order, each
\* with its block's id and the string execute_tool returned for it; text
\* blocks of the assistant turn yield no result.
C29_OneResultPerInvocation ==
    \A q \in Queries : \A t \in DOMAIN messages[q] :
        messages[q][t].kind = "tool_results"
        => /\ t > 1
           /\ messages[q][t - 1].role = "assistant"
           /\ LET uses == ToolUses(messages[q][t - 1].blocks)
                  res == messages[q][t].blocks IN
              /\ Len(res) = Len(uses)
              /\ Len(res) =
                    Cardinality({j \in DOMAIN messages[q][t - 1].blocks :
                                   messages[q][t - 1].blocks[j].type # "text"})
              /\ \A i \in DOMAIN res :
                    /\ res[i].type = "tool_result"
                    /\ res[i].tool_use_id = uses[i].id
                    /\ \E n \in DOMAIN execLog[q] :
                          /\ execLog[q][n].id = uses[i].id
                          /\ execLog[q][n].name = uses[i].name
                          /\ ~execLog[q][n].raised
                          /\ res[i].content = execLog[q][n].out

\* A round with a text block and one invocation, then a round with two
\* invocations of different outcome.
C29_Witness ==
    \E q \in Queries :
        /\ Len(messages[q]) = 5
        /\ Len(messages[q][2].blocks) = 2
        /\ messages[q][2].blocks[1].type = "text"
        /\ Len(messages[q][3].blocks) = 1
        /\ messages[q][3].blocks[1].tool_use_id = <<1, 2>>
        /\ Len(messages[q][5].blocks) = 2
        /\ messages[q][5].blocks[1].tool_use_id = <<2, 1>>
        /\ messages[q][5].blocks[2].tool_use_id = <<2, 2>>
        /\ messages[q][5].blocks[1].content # messages[q][5].blocks[2].content

\* C30: the k-th engine call of a query sends 2(k-1)+1 turns: the user's
\* query, then assistant and tool-results turns in alternation; and what it
\* sends is what call k-1 sent, unchanged, followed by exactly two turns.
C30_TurnsGrowByTwo ==
    [][\A q \in Queries :
         ncalls'[q] = ncalls[q] + 1
         => LET sent == lastReq'[q].messages
                k == ncalls'[q] IN
            /\ Len(sent) = 2 * (k - 1) + 1
            /\ \A t \in DOMAIN sent :
                  /\ t = 1 => sent[t].role = "user" /\ sent[t].kind = "query"
                  /\ t % 2 = 0 => sent[t].role = "assistant"
                  /\ t > 1 /\ t % 2 = 1
                     => sent[t].role = "user" /\ sent[t].kind = "tool_results"
            /\ k > 1
               => /\ Len(sent) = Len(lastReq[q].messages) + 2
                  /\ \A t \in DOMAIN lastReq[q].messages :
                        sent[t] = lastReq[q].messages[t]]_vars

\* The third call of a query has sent five turns.
C30_Witness ==
    \E q \in Queries :
        /\ ncalls[q] = 3
        /\ Len(lastReq[q].messages) = 5
        /\ lastReq[q].messages[5].kind = "tool_results"
        /\ Len(lastReq[q].messages[5].blocks) = 2
        /\ lastReq[q].messages[4].role = "assistant"

\* The accumulation tool i of the registry exposes: none for a tool without.
Exposed(reg, i) == IF reg[i].tool.accumulates THEN reg[i].last_sources ELSE <<>>

\* The number of records exposed by the tools registered before tool i.
RECURSIVE ExposedBefore(_, _)
ExposedBefore(reg, i) ==
    IF i <= 1 THEN 0 ELSE ExposedBefore(reg, i - 1) + Len(Exposed(reg, i - 1))

\* C22: the list get_last_sources returns is the accumulations of the
\* registered tools that have one, one after the other in registration
\* order: tools without an accumulation add nothing, and with no
\* accumulating tool the list is empty.
C22_DrainConcatenates ==
    [][drained' # drained
       => /\ registry' = registry
          /\ Len(drained') = ExposedBefore(registry, Len(registry) + 1)
          /\ \A i \in DOMAIN registry :
                \A j \in 1..Len(Exposed(registry, i)) :
                    drained'[ExposedBefore(registry, i) + j] = registry[i].last_sources[j]
          /\ (\A i \in DOMAIN registry : ~registry[i].tool.accumulates)
             => drained' = <<>>]_vars

\* The outline tool registered first and the search tool second, both with
\* records: the list read has the outline's record first.
C22_Witness ==
    /\ Len(registry) = 2
    /\ registry[1].tool = [kind |-> "outline", accumulates |-> TRUE]
    /\ registry[2].tool.kind = "search"
    /\ Len(registry[1].last_sources) = 1
    /\ Len(registry[2].last_sources) = 2
    /\ drained = registry[1].last_sources \o registry[2].last_sources

\* The other case of C22: after a search that left records, the list read
\* from a registry whose only other tool has no accumulation is the search
\* tool's.
C22_PlainToolReached ==
    /\ Len(registry) = 2
    /\ registry[1].tool = [kind |-> "outline", accumulates |-> FALSE]
    /\ lastExec.tool = 1
    /\ Len(registry[2].last_sources) = 1
    /\ drained = registry[2].last_sources

\* The name a tool's schema declares, "" when it declares none.
Declared(tool) ==
    IF tool.kind = "search" THEN "search_course_content"
    ELSE IF tool.kind = "outline" THEN "get_course_outline"
    ELSE ""

\* C23: a registered tool is stored under the name its schema declares, and
\* execute_tool with that name runs that tool with the arguments it was
\* given; registering a tool whose schema has no name raises and leaves the
\* registry as it was.
C23_RegisterByDeclaredName ==
    /\ [](\A i \in DOMAIN registry :
            /\ registry[i].name = Declared(registry[i].tool)
            /\ registry[i].name # ""
            /\ \A j \in DOMAIN registry : registry[j].name = registry[i].name => j = i)
    /\ [][/\ registry' # registry /\ Len(registry') > Len(registry)
             => /\ regRaised' = [type |-> "", msg |-> ""]
                /\ \E tool \in ToolInstances :
                      registry' = Append(registry, [name |-> Declared(tool), tool |-> tool,
                                                    last_sources |-> <<>>])
          /\ regRaised' # regRaised /\ regRaised'.type # ""
             => /\ regRaised'.type = "ValueError"
                /\ registry' = registry
          /\ lastExec' # lastExec
             => IF \E i \in DOMAIN registry : registry[i].name = lastExec'.name
                THEN /\ lastExec'.tool \in DOMAIN registry
                     /\ registry[lastExec'.tool].name = lastExec'.name
                     /\ lastExec'.received = lastExec'.kwargs
                     /\ lastExec'.received.some
                ELSE /\ lastExec'.tool = 0
                     /\ ~lastExec'.received.some
                     /\ lastExec'.ret = <<"Tool '", lastExec'.name, "' not found">>]_vars

\* A nameless tool was refused after two tools were registered, and the
\* second was then invoked by its name with arguments.
C23_Witness ==
    /\ regRaised.type = "ValueError"
    /\ Len(registry) = 2
    /\ lastExec.name = "get_course_outline"
    /\ lastExec.tool = 2
    /\ registry[2].tool.kind = "outline"
    /\ lastExec.received = [some |-> TRUE, val |-> [course_title |-> "Python"]]

\* The latest execute_tool call ran the content-search tool.
SearchRan == lastExec.tool > 0 /\ lastExec.name = "search_course_content"

\* C24: the filter of the content query is the resolved course title alone,
\* the lesson number alone, the AND of the two, or no filter at all,
\* according to which of the two the call has.
C24_FilterConstruction ==
    SearchRan /\ lastExec.content # <<>>
    => LET where == lastExec.content[1]
           title == lastExec.resolved
           lesson == lastExec.kwargs.val.lesson_number
       IN  /\ Len(lastExec.content) = 1
           /\ title.some <=> lastExec.kwargs.val.course_name.some
           /\ title.some /\ ~lesson.some => where = [course_title |-> title.val]
           /\ ~title.some /\ lesson.some => where = [lesson_number |-> lesson.val]
           /\ title.some /\ lesson.some
              => where = [and |-> <<[course_title |-> title.val],
                                    [lesson_number |-> lesson.val]>>]
           /\ ~title.some /\ ~lesson.some => where = [some |-> FALSE]

\* A search with a course name and a lesson number queried the content
\* index with the AND of the resolved title and the lesson.
C24_Witness ==
    /\ SearchRan
    /\ lastExec.kwargs.val.course_name = [some |-> TRUE, val |-> "Python"]
    /\ lastExec.content =
          <<[and |-> <<[course_title |-> "Python Basics"], [lesson_number |-> 3]>>]>>

\* The other cases of C24.
C24_CourseOnlyReached ==
    SearchRan /\ lastExec.content = <<[course_title |-> "Python Basics"]>>

C24_LessonOnlyReached ==
    SearchRan /\ lastExec.content = <<[lesson_number |-> 3]>>

C24_UnrestrictedReached ==
    SearchRan /\ lastExec.content = <<[some |-> FALSE]>>

\* C25: when a course name is given and the catalog has no match for it,
\* the search outcome is the error "No course found matching '<name>'" with
\* no documents, the content index is not queried, and the tool returns
\* that string.
C25_ResolutionMiss ==
    /\ SearchRan /\ lastExec.kwargs.val.course_name.some
       => /\ Len(lastExec.catalog) = 1
          /\ lastExec.catalog[1].query_texts = lastExec.kwargs.val.course_name.val
    /\ SearchRan /\ lastExec.catalog # <<>> /\ lastExec.catalog[1].results = <<>>
       => /\ lastExec.content = <<>>
          /\ lastExec.results.val.error =
                [some |-> TRUE,
                 val |-> <<"No course found matching '",
                           lastExec.kwargs.val.course_name.val, "'">>]
          /\ lastExec.results.val.documents = <<>>
          /\ lastExec.ret = <<"No course found matching '",
                              lastExec.kwargs.val.course_name.val, "'">>
    /\ SearchRan /\ lastExec.content = <<>>
       => lastExec.catalog # <<>> /\ lastExec.catalog[1].results = <<>>

\* A search for a course the catalog does not know, with a lesson number,
\* returned the not-found string without a content query.
C25_Witness ==
    /\ SearchRan
    /\ lastExec.kwargs.val.lesson_number.some
    /\ lastExec.catalog = <<[query_texts |-> "Python", results |-> <<>>]>>
    /\ lastExec.content = <<>>
    /\ lastExec.ret = <<"No course found matching '", "Python", "'">>

\* The latest search came back with no documents and no error.
NothingFound ==
    /\ SearchRan
    /\ ~lastExec.results.val.error.some
    /\ lastExec.results.val.documents = <<>>

\* C26: for an outcome with no documents and no error the tool returns
\* "No relevant content found", followed by " in course '<course>'" exactly
\* when a course was given and by " in lesson <N>" exactly when a lesson
\* number was given, the course clause first when both were given.
C26_EmptyResultMessage ==
    NothingFound
    => LET course == lastExec.kwargs.val.course_name
           lesson == lastExec.kwargs.val.lesson_number
           ret == lastExec.ret
       IN  /\ ret[1] = "No relevant content found"
           /\ Len(ret) = 1 + (IF course.some THEN 3 ELSE 0) + (IF lesson.some THEN 2 ELSE 0)
           /\ course.some
              => /\ ret[2] = " in course '"
                 /\ ret[3] = course.val
                 /\ ret[4] = "'"
           /\ lesson.some
              => /\ ret[Len(ret) - 1] = " in lesson "
                 /\ ret[Len(ret)] = ToString(lesson.val)
           /\ \A i \in DOMAIN ret :
                 /\ ret[i] = " in course '" => course.some
                 /\ ret[i] = " in lesson " => lesson.some

\* Nothing was found for a course and a lesson: both clauses are there.
C26_Witness ==
    /\ NothingFound
    /\ lastExec.ret = <<"No relevant content found", " in course '", "Python", "'",
                        " in lesson ", "3">>
    /\ lastExec.content # <<>>

\* The other cases of C26.
C26_NoFilterReached ==
    NothingFound /\ lastExec.ret = <<"No relevant content found">>

C26_LessonOnlyReached ==
    NothingFound /\ lastExec.ret = <<"No relevant content found", " in lesson ", "3">>

C26_CourseOnlyReached ==
    NothingFound
    /\ lastExec.ret = <<"No relevant content found", " in course '", "Python", "'">>

\* C27: every outcome the index layer hands back has as many metadata
\* entries and distances as documents, and one that carries an error has no
\* documents, metadata or distances.
C27_OutcomeShape ==
    lastExec.results.some
    => LET r == lastExec.results.val IN
       /\ Len(r.documents) = Len(r.metadata)
       /\ Len(r.documents) = Len(r.distances)
       /\ r.error.some
          => /\ r.documents = <<>>
             /\ r.metadata = <<>>
             /\ r.distances = <<>>

\* The index returned two chunks for a query.
C27_Witness ==
    /\ lastExec.results.some
    /\ Len(lastExec.results.val.documents) = 2
    /\ Len(lastExec.results.val.distances) = 2
    /\ ~lastExec.results.val.error.some

\* The other case of C27: the content query raised and the outcome carries
\* the error.
C27_SearchErrorReached ==
    /\ lastExec.results.some
    /\ lastExec.results.val.error =
          [some |-> TRUE, val |-> <<"Search error: ", "ChromaDB error">>]
    /\ lastExec.content # <<>>

\* C31: every engine call made while current_round is below max_rounds
\* carries the tools and tool_choice auto; of the calls of a query that was
\* given tools, only the final call made after the loop leaves them out,
\* and no call follows it.
C31_ToolsOfferedInLoop ==
    /\ [][\A q \in Queries :
            ncalls'[q] = ncalls[q] + 1
            => /\ args[q].tools /\ args[q].mgr /\ round[q] < args[q].R
                  => lastReq'[q].tools /\ lastReq'[q].tool_choice
               /\ args[q].tools /\ args[q].mgr /\ round[q] >= args[q].R
                  => ~lastReq'[q].tools /\ ~lastReq'[q].tool_choice
               /\ args[q].tools /\ ~lastReq'[q].tools
                  => /\ args[q].mgr
                     /\ round[q] >= args[q].R
                     /\ pc[q] = "synth"
                     /\ pc'[q] \in {"done", "raised"}]_vars
    /\ [](\A q \in Queries :
            args[q].tools /\ ncalls[q] > 0 /\ ~lastReq[q].tools
            => pc[q] \notin {"call", "exec", "synth", "single"})

\* Two in-loop calls with tools were followed by the final call without.
C31_Witness ==
    \E q \in Queries :
        /\ args[q].tools /\ args[q].mgr /\ args[q].R = 2
        /\ ncalls[q] = 3
        /\ round[q] = 2
        /\ ~lastReq[q].tools /\ ~lastReq[q].tool_choice
        /\ Len(lastReq[q].messages) = 5
        /\ pc[q] = "done"

\* The response in hand answers an in-loop call and its stop reason is not
\* tool_use.
NaturalStop(q) ==
    /\ UseSequentialRounds(args[q])
    /\ ResponseInHand(q)
    /\ lastReq[q].tools
    /\ stops[q][ncalls[q]] # "tool_use"

\* C32: an in-loop response whose stop reason is not tool_use ends the
\* query with that response's text as the answer, for every content that
\* has a text block, and none of its tool_use blocks is executed.
C32_NaturalStopReturnsText ==
    \A q \in Queries :
        (NaturalStop(q) /\ \E i \in DOMAIN resp[q].content : resp[q].content[i].type = "text")
        => /\ pc[q] \in {"done", "drained", "returned"}
           /\ answer[q].kind = "text"
           /\ \E i \in DOMAIN resp[q].content :
                 /\ resp[q].content[i].type = "text"
                 /\ answer[q].id = resp[q].content[i].id
           /\ \A n \in DOMAIN execLog[q] : execLog[q][n].id[1] < ncalls[q]

\* The part of C32 that the code keeps: no block of such a response is
\* executed and no call follows; the answer is the text of the first block
\* when that is a text block, and otherwise `content[0].text` raises.
C32_NaturalStopFirstBlock ==
    \A q \in Queries :
        NaturalStop(q)
        => /\ \A n \in DOMAIN execLog[q] : execLog[q][n].id[1] < ncalls[q]
           /\ pc[q] \in {"done", "raised", "drained", "returned"}
           /\ HasFirstText(resp[q].content)
              => /\ pc[q] # "raised"
                 /\ answer[q] = [kind |-> "text", id |-> <<ncalls[q], 1>>]
           /\ ~HasFirstText(resp[q].content)
              => pc[q] = "raised" /\ failure[q].kind = "extract"

\* A natural stop whose content has a tool_use block before its text block
\* ended with the exception.
C32_TextNotFirstReached ==
    \E q \in Queries :
        /\ NaturalStop(q)
        /\ Len(resp[q].content) = 2
        /\ resp[q].content[1].type = "tool_use"
        /\ resp[q].content[2].type = "text"
        /\ pc[q] = "raised"

\* C33: after an execute of the content-search tool that returned passages,
\* the tool's accumulation is the records of that execute, one per document
\* returned and in result order, whatever it held before.
C33_AccumulationReplaced ==
    [][(lastExec' # lastExec
        /\ lastExec'.tool > 0
        /\ lastExec'.name = "search_course_content"
        /\ lastExec'.results.val.documents # <<>>)
       => LET r == lastExec'.results.val
              acc == registry'[lastExec'.tool].last_sources
          IN  /\ ~r.error.some
              /\ Len(acc) = Len(r.documents)
              /\ \A i \in DOMAIN acc :
                    acc[i] = <<r.metadata[i].course_title, " - Lesson ",
                               ToString(r.metadata[i].lesson_number.val)>>
              /\ \A j \in DOMAIN registry :
                    j # lastExec'.tool => registry'[j] = registry[j]]_vars

\* A search that returned one passage followed one that had left two
\* records: the accumulation is the one record of the later search.
C33_Witness ==
    /\ SearchRan
    /\ Len(lastExec.results.val.documents) = 1
    /\ lastExec.kwargs.val.lesson_number.some
    /\ registry[lastExec.tool].last_sources = <<<<"Python Basics", " - Lesson ", "3">>>>
    /\ Len(drained) = 2

\* The step is an execute of the content-search tool whose outcome has no
\* documents: an empty result, a resolution miss or an index error.
EmptyOutcomeStep ==
    /\ lastExec' # lastExec
    /\ lastExec'.tool > 0
    /\ lastExec'.name = "search_course_content"
    /\ lastExec'.results.val.documents = <<>>

\* C34: after an execute of the content-search tool whose outcome has no
\* documents, the tool's accumulation is empty, whatever it held before.
C34_EmptyOutcomeClears ==
    [][EmptyOutcomeStep => registry'[lastExec'.tool].last_sources = <<>>]_vars

\* What the tool does instead: an execute whose outcome has no documents
\* leaves the accumulation as it was.
C34_EmptyOutcomeKeeps ==
    [][EmptyOutcomeStep => registry' = registry]_vars

\* A search that found nothing ran on a tool that still holds the records
\* of an earlier search.
C34_StaleRecordsReached ==
    /\ SearchRan
    /\ lastExec.results.val.documents = <<>>
    /\ ~lastExec.results.val.error.some
    /\ Len(registry[lastExec.tool].last_sources) = 2

\* generate_response is running for q: it has neither returned nor raised.
Running(q) == pc[q] \in {"call", "exec", "synth", "single"}

\* max(R, 0)
AtLeastZero(R) == IF R > 0 THEN R ELSE 0

\* C35 as stated: generate_response ends for every max_rounds, makes at most
\* max(R,0)+1 engine calls and at most max(R,0) rounds of tool execution,
\* and current_round never exceeds R.
C35_TerminatesRoundWithinR ==
    /\ \A q \in SeqQueries : Running(q) ~> ~Running(q)
    /\ [](\A q \in SeqQueries :
            pc[q] # "idle"
            => /\ ncalls[q] <= AtLeastZero(args[q].R) + 1
               /\ ToolRounds(q) <= AtLeastZero(args[q].R)
               /\ round[q] <= args[q].R)

\* C35, with the counter bounded by max(R,0): generate_response ends for
\* every max_rounds, makes at most max(R,0)+1 engine calls and at most
\* max(R,0) rounds of tool execution, and current_round, which starts at 0,
\* never exceeds max(R,0).
C35_Terminates ==
    /\ \A q \in SeqQueries : Running(q) ~> ~Running(q)
    /\ [](\A q \in SeqQueries :
            pc[q] # "idle"
            => /\ ncalls[q] <= AtLeastZero(args[q].R) + 1
               /\ ToolRounds(q) <= AtLeastZero(args[q].R)
               /\ round[q] <= AtLeastZero(args[q].R)
               /\ round[q] = ToolRounds(q))

\* A call with max_rounds = -1 and tools ended after its one engine call,
\* with the counter at 0.
C35_Witness ==
    \E q \in SeqQueries :
        /\ args[q].R < 0 /\ args[q].tools /\ args[q].mgr
        /\ pc[q] = "done"
        /\ ncalls[q] = 1
        /\ round[q] = 0

\* The other end of C35: a call with max_rounds = 2 ended after three engine
\* calls and two rounds.
C35_TwoRoundsReached ==
    \E q \in SeqQueries :
        /\ args[q].R = 2
        /\ pc[q] = "done"
        /\ ncalls[q] = 3
        /\ round[q] = 2

\* The response in hand answers an in-loop call with stop reason tool_use
\* and has no tool_use block.
ToolUseWithoutBlocks(q) ==
    /\ UseSequentialRounds(args[q])
    /\ ResponseInHand(q)
    /\ lastReq[q].tools
    /\ stops[q][ncalls[q]] = "tool_use"
    /\ \A i \in DOMAIN resp[q].content : resp[q].content[i].type # "tool_use"

\* C36: an in-loop response with stop reason tool_use and no tool_use block
\* still takes a round: the assistant turn is appended, then a tool-results
\* turn with no results, current_round goes up by one, and no tool is
\* executed.
C36_EmptyRoundConsumed ==
    /\ [](\A q \in Queries :
            ToolUseWithoutBlocks(q)
            => /\ \A n \in DOMAIN execLog[q] : execLog[q][n].id[1] < ncalls[q]
               /\ Len(messages[q]) >= 2 * ncalls[q]
               /\ messages[q][2 * ncalls[q]] =
                     [role |-> "assistant", by |-> q, kind |-> "assistant",
                      blocks |-> resp[q].content]
               /\ \/ /\ pc[q] = "exec"
                     /\ round[q] = ncalls[q] - 1
                     /\ Len(messages[q]) = 2 * ncalls[q]
                  \/ /\ pc[q] \in {"call", "synth"}
                     /\ round[q] = ncalls[q]
                     /\ Len(messages[q]) = 2 * ncalls[q] + 1
                     /\ messages[q][2 * ncalls[q] + 1] =
                           [role |-> "user", by |-> q, kind |-> "tool_results",
                            blocks |-> <<>>])
    /\ [][\A q \in Queries :
            ToolUseWithoutBlocks(q) /\ pc[q] = "exec" /\ pc'[q] # "exec"
            => /\ round'[q] = round[q] + 1
               /\ Len(messages'[q]) = Len(messages[q]) + 1
               /\ execLog'[q] = execLog[q]]_vars

\* A tool_use response made of one text block used up the first of two
\* rounds; the loop went on to the second call.
C36_Witness ==
    \E q \in Queries :
        /\ args[q].R = 2
        /\ ncalls[q] = 1
        /\ stops[q] = <<"tool_use">>
        /\ Len(resp[q].content) = 1
        /\ resp[q].content[1].type = "text"
        /\ round[q] = 1
        /\ pc[q] = "call"
        /\ Len(messages[q]) = 3
        /\ messages[q][3].blocks = <<>>
        /\ execLog[q] = <<>>

\* The other case of C36: the response had no block at all and used up the
\* only round.
C36_EmptyContentReached ==
    \E q \in Queries :
        /\ args[q].R = 1
        /\ ncalls[q] = 1
        /\ stops[q] = <<"tool_use">>
        /\ resp[q].content = <<>>
        /\ round[q] = 1
        /\ pc[q] = "synth"

\* The handler of request q has been entered and has not yet returned or
\* raised to the framework.
Handling(q) == request[q].via = "http" /\ pc[q] \notin {"idle", "responded"}

\* A step in which request q fills, drains or resets the accumulation.
TouchesSources(q) ==
    \/ pc[q] = "exec" /\ execLog'[q] # execLog[q] /\ lastSources' # lastSources
    \/ pc[q] \in {"done", "failed"} /\ pc'[q] = "drained"
    \/ pc[q] = "drained" /\ pc'[q] = "returned"

\* C37: on one event loop the handler of /api/query runs from the session
\* id to the response without yielding, so no two requests are being
\* handled at once: a handler starts only when no other is being handled,
\* every fill, drain and reset of the shared accumulation by one request
\* happens while no other request is being handled, and the list a request
\* drains holds no record of a request still being handled.
C37_HandlersDoNotInterleave ==
    /\ [](\A q \in Queries, p \in Queries :
            p # q => ~(Handling(p) /\ Handling(q)))
    /\ [][\A q \in Queries :
            /\ (~Handling(q) /\ Handling(q)')
               => \A p \in Queries \ {q} : ~Handling(p) /\ ~Handling(p)'
            /\ TouchesSources(q)
               => \A p \in Queries \ {q} :
                     /\ ~Handling(p)
                     /\ UNCHANGED <<pc[p], request[p], execLog[p], returned[p]>>
            /\ (pc[q] \in {"done", "failed"} /\ pc'[q] = "drained")
               => /\ returned'[q] = lastSources
                  /\ \A i \in DOMAIN lastSources :
                        lastSources[i].by \in Queries \ {q}
                        => ~Handling(lastSources[i].by)]_vars

\* Two requests on the loop: the first filled, drained and reset the
\* accumulation and was answered before the second, which has now drained
\* its own records, was begun.
C37_Witness ==
    \E q \in Queries, p \in Queries :
        /\ p # q
        /\ pc[p] = "responded"
        /\ response[p].status = 200
        /\ Len(response[p].sources) > 0
        /\ \A i \in DOMAIN response[p].sources : response[p].sources[i].by = p
        /\ pc[q] = "drained"
        /\ Len(returned[q]) > 0
        /\ \A i \in DOMAIN returned[q] : returned[q][i].by = q

\* The passes of the loop that ended with a load that returned.
Loads == {k \in DOMAIN tried : tried[k].found = "loaded"}

\* C38: startup_event looks at "../docs", "docs", "../../docs", "./docs" in
\* that order; at most one load completes and it ends the loop; a candidate
\* that is missing, has no course files or raises is followed by the next
\* one until the list is used up; every add_course_folder call is made with
\* clear_existing false and no step takes a course out of the store.
C38_FirstLoadEndsLoop ==
    /\ [](/\ Len(tried) <= Len(PossibleDocsPaths)
          /\ \A k \in DOMAIN tried : tried[k].path = PossibleDocsPaths[k]
          /\ PossibleDocsPaths = <<"../docs", "docs", "../../docs", "./docs">>
          /\ \A k \in Loads : k = Len(tried) /\ startPc # "loop"
          /\ startPc = "loop" => docs_path = Len(tried) + 1
          /\ (startPc \in {"after", "done", "raised"} /\ Loads = {})
                => Len(tried) = Len(PossibleDocsPaths)
          /\ \A k \in DOMAIN tried :
                /\ tried[k].call.called
                      => ~tried[k].call.clear_existing /\ tried[k].call.path = tried[k].path
                /\ tried[k].call.called <=> tried[k].found \in {"load_raised", "loaded"})
    /\ [][vector_store \subseteq vector_store']_vars

\* The first candidate was missing, the second raised while loading, and
\* the third loaded into a store that held courses: the loop ended there,
\* the fourth was not looked at, and the earlier courses are still there.
C38_Witness ==
    /\ startPc = "done"
    /\ Len(tried) = 3
    /\ tried[1].found = "missing"
    /\ tried[2].found = "load_raised"
    /\ tried[3].found = "loaded"
    /\ tried[3].call = [called |-> TRUE, path |-> "../../docs", clear_existing |-> FALSE]
    /\ vector_store = {"existing", "../../docs"}
    /\ docs_loaded

\* The other case of C38: no candidate loaded, and all four were looked at.
C38_AllTriedReached ==
    /\ startPc = "done"
    /\ Len(tried) = 4
    /\ Loads = {}
    /\ tried[2].found = "no_course_files"
    /\ tried[3].found = "listdir_raised"
    /\ ~docs_loaded

====
